---------------------------- MODULE Spec2Model ----------------------------
(***************************************************************************)
(* A model of the server-side connection core of mvfst (QUIC):           *)
(*   quic/server/state/ServerStateMachine.cpp  (packet pipeline,          *)
(*       handshake progression, transport parameters, migration)          *)
(*   quic/state/QuicStateFunctions.cpp         (ACK scheduling, RTT)      *)
(*                                                                         *)
(* The connection is one record, conn, threaded through operators that    *)
(* are named after the C++ functions they are translated from.  A C++     *)
(* exception is the field conn.err of the record being threaded: once it  *)
(* is set the rest of the call is skipped, and what was assigned before   *)
(* the throw stays assigned, as in the code.                              *)
(***************************************************************************)
EXTENDS Integers, Sequences, FiniteSets, TLC

VARIABLES
    conn,   \* QuicServerConnectionState, and in conn.err the exception the
            \* last call raised ("NONE" when it returned normally)
    now,    \* Clock::now(), in seconds
    hist    \* the last call and its inputs, and counts kept to state claims

vars == <<conn, now, hist>>

---------------------------------------------------------------------------
(* Bounds of the model. *)

MaxTolerance == 2      \* explicit ACK tolerances are drawn from 1..MaxTolerance
MaxNonRxPackets == 1   \* packets without retransmittable data counted at a time
MaxPacketNum == 1      \* packet numbers are drawn from 0..MaxPacketNum
MaxTime == 1           \* the clock advances at most MaxTime times
MaxPathData == 1       \* PATH_CHALLENGE data is drawn from 1..MaxPathData
MaxRttSamples == 1     \* RTT samples taken in one run
MaxMigrationCalls == 3  \* migrations followed while the clock runs
MaxCipherId == 2       \* cipher objects the handshake layer can hand over
MaxServerMigrations == 1  \* migrations a connection reading datagrams makes
MaxPacketsToBuffer == 2  \* transportSettings.maxPacketsToBuffer
MaxStreamId == 4       \* stream ids are drawn from 0..MaxStreamId
MaxLocalStreams == 2   \* streams of a kind the peer lets the node open
MaxPeerStreams == 1    \* streams of a kind the node lets the peer open
MaxLazyPeerStreams == 2  \* the same where the peer opens streams implicitly
MaxAdvertisedStreams == 4  \* advertisedInitialMaxStreamsBidi of the windowed updates
MaxIndexEntries == 2   \* stream ids held by the manager's indices together
MaxSettingsCalls == 1  \* later calls that set the transport settings or remote limits
AckRttSample == 1      \* the RTT sample (microseconds) an ACK of new packets yields
MaxAckSamples == 1     \* RTT samples the ACK frames of one path yield

(* folly::none of an Optional holding a number; nullptr of a cipher. *)
None == 0 - 1

---------------------------------------------------------------------------
(* Program constants (quic/QuicConstants.h, used at the lines named in the *)
(* constants table).                                                       *)

kNonRtxRxPacketsPendingBeforeAck == 20

PacketNumberSpaces == {"Initial", "Handshake", "AppData"}

---------------------------------------------------------------------------
(* Exceptions. *)

ok(c) == c.err = "NONE"

throw(c, code) == [c EXCEPT !.err = code]

(* an exception of the stream manager with its message *)
throwMessage(c, code, message) == [throw(c, code) EXCEPT !.errMessage = message]

---------------------------------------------------------------------------
(* AckState, one per packet-number space. *)

InitAckState == [
    largestReceivedPacketNum  |-> None,
    numRxPacketsRecvd         |-> 0,
    numNonRxPacketsRecvd      |-> 0,
    needsToSendAckImmediately |-> FALSE,
    tolerance                 |-> None,
    ignoreReorder             |-> FALSE,
    largestAckScheduled       |-> None ]

(* QuicStateFunctions.cpp 83-93: the packet threshold that applies. *)
ackThresholdIgnoringTolerance(c, s, pktHasRetransmittableData) ==
    LET a == c.ackStates[s] IN
    IF pktHasRetransmittableData \/ a.numRxPacketsRecvd > 0
    THEN IF (IF a.largestReceivedPacketNum = None THEN 0
             ELSE a.largestReceivedPacketNum)
               > c.transportSettings.rxPacketsBeforeAckInitThreshold
         THEN c.transportSettings.rxPacketsBeforeAckAfterInit
         ELSE c.transportSettings.rxPacketsBeforeAckBeforeInit
    ELSE kNonRtxRxPacketsPendingBeforeAck

ackThreshold(c, s, pktHasRetransmittableData) ==
    LET a == c.ackStates[s] IN
    IF pktHasRetransmittableData \/ a.numRxPacketsRecvd > 0
    THEN IF a.tolerance # None
         THEN a.tolerance
         ELSE IF (IF a.largestReceivedPacketNum = None THEN 0
                  ELSE a.largestReceivedPacketNum)
                    > c.transportSettings.rxPacketsBeforeAckInitThreshold
              THEN c.transportSettings.rxPacketsBeforeAckAfterInit
              ELSE c.transportSettings.rxPacketsBeforeAckBeforeInit
    ELSE kNonRtxRxPacketsPendingBeforeAck

(* the counters left as they are when the latch is set *)
keepCountersIfLatched(c, s) == c

(* QuicStateFunctions.cpp 132-135 *)
zeroCountersIfLatched(c, s) ==
    IF c.ackStates[s].needsToSendAckImmediately
    THEN [c EXCEPT !.ackStates[s].numRxPacketsRecvd = 0,
                   !.ackStates[s].numNonRxPacketsRecvd = 0]
    ELSE c

(* QuicStateFunctions.cpp 76-136.  The || of line 98 short-circuits: the   *)
(* counter is incremented only when the packet neither carries crypto data *)
(* nor counts as out of order.                                             *)
updateAckSendStateOnRecvPacket(c, s, pktOutOfOrderIn, pktHasRetransmittableData, pktHasCryptoData) ==
    LET a == c.ackStates[s]
        thresh == ackThreshold(c, s, pktHasRetransmittableData)
        pktOutOfOrder == IF a.ignoreReorder THEN FALSE ELSE pktOutOfOrderIn
        c1 ==
          IF pktHasRetransmittableData
          THEN IF pktHasCryptoData \/ pktOutOfOrder
               THEN [c EXCEPT !.pendingEvents.scheduleAckTimeout = FALSE,
                              !.ackStates[s].needsToSendAckImmediately = TRUE]
               ELSE IF a.numRxPacketsRecvd + 1 + a.numNonRxPacketsRecvd >= thresh
               THEN [c EXCEPT !.ackStates[s].numRxPacketsRecvd = @ + 1,
                              !.pendingEvents.scheduleAckTimeout = FALSE,
                              !.ackStates[s].needsToSendAckImmediately = TRUE]
               ELSE IF ~a.needsToSendAckImmediately
               THEN [c EXCEPT !.ackStates[s].numRxPacketsRecvd = @ + 1,
                              !.pendingEvents.scheduleAckTimeout = TRUE]
               ELSE [c EXCEPT !.ackStates[s].numRxPacketsRecvd = @ + 1]
          ELSE IF a.numNonRxPacketsRecvd + 1 + a.numRxPacketsRecvd >= thresh
               THEN [c EXCEPT !.ackStates[s].numNonRxPacketsRecvd = @ + 1,
                              !.pendingEvents.scheduleAckTimeout = FALSE,
                              !.ackStates[s].needsToSendAckImmediately = TRUE]
               ELSE [c EXCEPT !.ackStates[s].numNonRxPacketsRecvd = @ + 1]
    IN zeroCountersIfLatched(c1, s)

(* QuicStateFunctions.cpp 138-144: the one ack timeout of the connection  *)
(* acts on the AppData space.                                              *)
updateAckStateOnAckTimeout(c) ==
    [c EXCEPT !.ackStates["AppData"].needsToSendAckImmediately = TRUE,
              !.ackStates["AppData"].numRxPacketsRecvd = 0,
              !.ackStates["AppData"].numNonRxPacketsRecvd = 0,
              !.pendingEvents.scheduleAckTimeout = FALSE]

(* QuicStateFunctions.cpp 146-162 *)
updateAckSendStateOnSentPacketWithAcks(c, s, largestAckScheduled) ==
    [c EXCEPT !.pendingEvents.scheduleAckTimeout = FALSE,
              !.ackStates[s].needsToSendAckImmediately = FALSE,
              !.ackStates[s].numRxPacketsRecvd = 0,
              !.ackStates[s].numNonRxPacketsRecvd = 0,
              !.ackStates[s].largestAckScheduled = largestAckScheduled]

---------------------------------------------------------------------------
(* Peer addresses: folly::SocketAddress as family, /24 network, host and   *)
(* port.  A1 is the address the connection starts on.                      *)

A1 == [v4 |-> TRUE, net |-> 1, host |-> 1, port |-> 1]
A2 == [v4 |-> TRUE, net |-> 1, host |-> 1, port |-> 2]  \* A1, other port
A3 == [v4 |-> TRUE, net |-> 1, host |-> 2, port |-> 1]  \* A1's /24
A4 == [v4 |-> TRUE, net |-> 2, host |-> 1, port |-> 1]  \* another network
A5 == [v4 |-> FALSE, net |-> 3, host |-> 1, port |-> 1] \* an IPv6 peer
NoAddr == [v4 |-> FALSE, net |-> 0, host |-> 0, port |-> 0]

IPAddress(a) == [v4 |-> a.v4, net |-> a.net, host |-> a.host]

(* ServerStateMachine.cpp 34-47 *)
maybeNATRebinding(newPeerAddress, oldPeerAddress) ==
    \/ IPAddress(newPeerAddress) = IPAddress(oldPeerAddress)
    \/ /\ newPeerAddress.v4
       /\ oldPeerAddress.v4
       /\ newPeerAddress.net = oldPeerAddress.net

---------------------------------------------------------------------------
(* The connection. *)

ClientConnId == "cid_client"

NoCongestionAndRtt == [present |-> FALSE]

kDefaultMinRtt == 2147483647

InitConn == [
    err |-> "NONE",
    state |-> "Open",
    hasReadCodec |-> FALSE,
    version |-> "NONE",
    clientConnectionId |-> ClientConnId,
    \* the peer's connection ids: the client's first and those of its
    \* NEW_CONNECTION_ID frames
    peerConnectionIds |-> <<[connId |-> ClientConnId, sequenceNumber |-> 0]>>,
    originalPeerAddress |-> A1,
    peerAddress |-> NoAddr,
    \* ciphers
    oneRttWriteCipher |-> None,
    serverConnectionId |-> None,
    \* self-issued connection IDs; the algorithm has produced `encoded`
    \* candidates and fails on candidate number errorAt, the rejector, when
    \* there is one, rejects the candidates numbered up to rejectUpTo
    selfConnectionIds |-> <<>>,
    nextSelfConnectionIdSequence |-> 0,
    connIdAlgo |-> [encoded |-> 0, errorAt |-> 0],
    connIdRejector |-> [present |-> FALSE, rejectUpTo |-> 0],
    readCodec |-> [initialReadCipher |-> FALSE,
                   zeroRttReadCipher |-> FALSE,
                   oneRttReadCipher |-> FALSE,
                   handshakeReadCipher |-> FALSE],
    initialWriteCipher |-> FALSE,
    usedZeroRtt |-> FALSE,
    canBePaced |-> FALSE,
    sentHandshakeDone |-> FALSE,
    writableBytesLimit |-> None,
    \* the packet length a connection to an IPv4 peer starts with
    udpSendPacketLen |-> 1252,
    \* crypto streams: data appended and not yet read by the handshake
    cryptoState |-> [initialStream |-> FALSE, handshakeStream |-> FALSE,
                     oneRttStream |-> FALSE],
    \* what processClientInitialParams applies
    flowControlState |-> [
        peerAdvertisedMaxOffset |-> 0,
        peerAdvertisedInitialMaxStreamOffsetBidiLocal |-> 0,
        peerAdvertisedInitialMaxStreamOffsetBidiRemote |-> 0,
        peerAdvertisedInitialMaxStreamOffsetUni |-> 0],
    maxLocalBidirectionalStreamId |-> 1,
    maxLocalUnidirectionalStreamId |-> 3,
    peerIdleTimeout |-> 0,
    peerAckDelayExponent |-> 3,
    peerMinAckDelay |-> None,
    maxWriteFrameSize |-> 0,
    \* pending events
    pendingEvents |-> [
        scheduleAckTimeout |-> FALSE,
        pathChallenge |-> None,
        schedulePathValidationTimeout |-> FALSE,
        cancelPingTimeout |-> FALSE,
        frames |-> <<>>],
    \* buffers of packets whose cipher is not there yet; "gone" once released
    pendingZeroRttData |-> [present |-> TRUE, packets |-> <<>>],
    pendingOneRttData |-> [present |-> TRUE, packets |-> <<>>],
    \* migration
    migrationState |-> [
        numMigrations |-> 0,
        previousPeerAddresses |-> <<>>,
        lastCongestionAndRtt |-> NoCongestionAndRtt],
    outstandingPathValidation |-> None,
    pathChallengeStartTime |-> 0,
    pathValidationLimiter |-> FALSE,
    congestionController |-> 1,
    controllersMade |-> 1,
    lossState |-> [srtt |-> 0, lrtt |-> 0, rttvar |-> 0,
                   mrtt |-> kDefaultMinRtt, maxAckDelay |-> 0],
    \* acks
    ackStates |-> [s \in PacketNumberSpaces |-> InitAckState],
    peerConnectionError |-> FALSE,
    \* peer streams opened by frames
    streams |-> {},
    transportSettings |-> [
        rxPacketsBeforeAckInitThreshold |-> 100,
        rxPacketsBeforeAckBeforeInit |-> 10,
        rxPacketsBeforeAckAfterInit |-> 10,
        maxPacketsToBuffer |-> 0,
        limitedCwndInMss |-> 3,
        disableMigration |-> FALSE,
        canIgnorePathMTU |-> FALSE,
        selfActiveConnectionIdLimit |-> 2,
        zeroRttSourceTokenMatchingPolicy |-> "REJECT_IF_NO_EXACT_MATCH"],
    \* source-address token
    sourceTokenMatching |-> FALSE,
    tokenSourceAddresses |-> <<>> ]

---------------------------------------------------------------------------
(* Client transport parameters: a record with one field per parameter id,  *)
(* None for a parameter the client did not send ("absent" for the          *)
(* connection id).                                                         *)

kMaxAckDelay == 16384
kMinMaxUDPPayload == 1200
kDefaultMaxUDPPayload == 1452
kDefaultUDPSendPacketLen == 1232
kMaxAckDelayExponent == 20
kDefaultAckDelayExponent == 3
kMaxDatagramPacketOverhead == 25
kMaxIdleTimeout == 600000
kStreamIncrement == 4
(* kMaxMaxStreams stands for the largest stream count the stream manager   *)
(* accepts; the model keeps it small so that 4 * kMaxMaxStreams is a       *)
(* number the checker can hold.  Parameters are QUIC varints (up to        *)
(* 2^62 - 1), so a client can send a larger value.                         *)
kMaxMaxStreams == 1000000

Min(a, b) == IF a <= b THEN a ELSE b
Max(a, b) == IF a >= b THEN a ELSE b
valueOr(x, d) == IF x = None THEN d ELSE x

(* QuicStreamManager.cpp 146-176: setMaxLocal{Bi,Uni}directionalStreams   *)
(* with force = false; field is the limit it sets, initialId the first id  *)
(* of that kind of stream for a server (1 bidirectional, 3 unidirectional) *)
setMaxLocalStreams(c, field, initialId, maxStreams) ==
    IF ~ok(c) THEN c
    ELSE IF maxStreams > kMaxMaxStreams THEN throw(c, "STREAM_LIMIT_ERROR")
    ELSE LET maxStreamId == maxStreams * kStreamIncrement + initialId IN
         IF maxStreamId > c[field] THEN [c EXCEPT ![field] = maxStreamId]
         ELSE c

(* ServerStateMachine.cpp 153-206: the checks made before anything is     *)
(* applied; the code of the exception, "NONE" when they all pass.          *)
clientParamsRejection(c, p) ==
    IF /\ c.version \in {"QUIC_DRAFT", "QUIC_V1"}
       /\ \/ p.initial_source_connection_id = "absent"
          \/ p.initial_source_connection_id # c.clientConnectionId
    THEN "TRANSPORT_PARAMETER_ERROR"
    ELSE IF p.preferred_address # None /\ p.preferred_address # 0
    THEN "TRANSPORT_PARAMETER_ERROR"
    ELSE IF /\ p.original_destination_connection_id # None
            /\ p.original_destination_connection_id # 0
    THEN "TRANSPORT_PARAMETER_ERROR"
    ELSE IF p.stateless_reset_token # None /\ p.stateless_reset_token # 0
    THEN "TRANSPORT_PARAMETER_ERROR"
    ELSE IF /\ p.retry_source_connection_id # None
            /\ p.retry_source_connection_id # 0
    THEN "TRANSPORT_PARAMETER_ERROR"
    ELSE IF p.max_ack_delay # None /\ p.max_ack_delay >= kMaxAckDelay
    THEN "TRANSPORT_PARAMETER_ERROR"
    ELSE IF p.max_packet_size # None /\ p.max_packet_size < kMinMaxUDPPayload
    THEN "TRANSPORT_PARAMETER_ERROR"
    ELSE "NONE"

(* ServerStateMachine.cpp 216-222 *)
applyPeerFlowControl(c, p) ==
    [c EXCEPT !.flowControlState = [
        peerAdvertisedMaxOffset |-> valueOr(p.initial_max_data, 0),
        peerAdvertisedInitialMaxStreamOffsetBidiLocal |->
            valueOr(p.initial_max_stream_data_bidi_local, 0),
        peerAdvertisedInitialMaxStreamOffsetBidiRemote |->
            valueOr(p.initial_max_stream_data_bidi_remote, 0),
        peerAdvertisedInitialMaxStreamOffsetUni |->
            valueOr(p.initial_max_stream_data_uni, 0)]]

(* ServerStateMachine.cpp 227-228 *)
applyPeerIdleTimeout(c, p) ==
    IF ~ok(c) THEN c
    ELSE [c EXCEPT !.peerIdleTimeout =
              Min(valueOr(p.idle_timeout, 0), kMaxIdleTimeout)]

(* ServerStateMachine.cpp 229-238 *)
applyAckDelayParams(c, p) ==
    IF ~ok(c) THEN c
    ELSE IF /\ p.ack_delay_exponent # None
            /\ p.ack_delay_exponent > kMaxAckDelayExponent
    THEN throw(c, "TRANSPORT_PARAMETER_ERROR")
    ELSE [c EXCEPT !.peerAckDelayExponent =
                       valueOr(p.ack_delay_exponent, kDefaultAckDelayExponent),
                   !.peerMinAckDelay =
                       IF p.min_ack_delay # None THEN p.min_ack_delay ELSE @]

(* ServerStateMachine.cpp 239-247 *)
applyMaxDatagramFrameSize(c, p) ==
    IF ~ok(c) \/ p.max_datagram_frame_size = None THEN c
    ELSE IF /\ p.max_datagram_frame_size > 0
            /\ p.max_datagram_frame_size <= kMaxDatagramPacketOverhead
    THEN throw(c, "TRANSPORT_PARAMETER_ERROR")
    ELSE [c EXCEPT !.maxWriteFrameSize = p.max_datagram_frame_size]

(* ServerStateMachine.cpp 249-266: with canIgnorePathMTU the client's      *)
(* max_packet_size sets udpSendPacketLen at once, an oversized one the     *)
(* default; peerMaxUdpPayloadSize is a field the model leaves out          *)
applyMaxUdpPayloadSize(c, p) ==
    IF ~ok(c) \/ p.max_packet_size = None THEN c
    ELSE LET maxUdpPayloadSize == Min(p.max_packet_size, kDefaultMaxUDPPayload)
         IN IF ~c.transportSettings.canIgnorePathMTU THEN c
            ELSE IF p.max_packet_size > kDefaultMaxUDPPayload
                 THEN [c EXCEPT !.udpSendPacketLen = kDefaultUDPSendPacketLen]
                 ELSE [c EXCEPT !.udpSendPacketLen = maxUdpPayloadSize]

(* ServerStateMachine.cpp 99-319.  Lines 268-319 (connection-id limit,     *)
(* D6D) raise nothing and assign only fields the model leaves out.         *)
processClientInitialParams(c, p) ==
    IF ~ok(c) THEN c
    ELSE IF clientParamsRejection(c, p) # "NONE"
    THEN throw(c, clientParamsRejection(c, p))
    ELSE
      LET c1 == applyPeerFlowControl(c, p)
          c2 == setMaxLocalStreams(c1, "maxLocalBidirectionalStreamId", 1,
                                   valueOr(p.initial_max_streams_bidi, 0))
          c3 == setMaxLocalStreams(c2, "maxLocalUnidirectionalStreamId", 3,
                                   valueOr(p.initial_max_streams_uni, 0))
          c4 == applyPeerIdleTimeout(c3, p)
          c5 == applyAckDelayParams(c4, p)
          c6 == applyMaxDatagramFrameSize(c5, p)
      IN applyMaxUdpPayloadSize(c6, p)

---------------------------------------------------------------------------
(* Handshake progression.  h is what the handshake layer hands over in     *)
(* this call: oneRttWriteCipher is a cipher object (None for nullptr),     *)
(* clientParams a parameter record or NoClientParams; a header cipher comes with *)
(* its data cipher and is not modelled apart from it.                      *)

(* SimpleFrameFunctions: sendSimpleFrame appends to pendingEvents.frames   *)
sendSimpleFrame(c, frame) ==
    [c EXCEPT !.pendingEvents.frames = Append(@, frame)]

(* ServerStateMachine.cpp 339-348 *)
installZeroRttReadCipher(c, h) ==
    IF h.zeroRttReadCipher
    THEN [c EXCEPT !.usedZeroRtt = TRUE,
                   !.readCodec.zeroRttReadCipher = TRUE]
    ELSE c

(* the same without the check of lines 360-363 *)
installOneRttWriteCipherUnchecked(c, h) ==
    IF ~ok(c) \/ h.oneRttWriteCipher = None THEN c
    ELSE [c EXCEPT !.oneRttWriteCipher = h.oneRttWriteCipher]

(* ServerStateMachine.cpp 356-364 *)
installOneRttWriteCipher(c, h) ==
    IF ~ok(c) \/ h.oneRttWriteCipher = None THEN c
    ELSE IF c.oneRttWriteCipher # None THEN throw(c, "CRYPTO_ERROR")
    ELSE [c EXCEPT !.oneRttWriteCipher = h.oneRttWriteCipher]

NoClientParams == [absent |-> TRUE]

(* ServerStateMachine.cpp 366-376; QuicPacingFunctions:                   *)
(* updatePacingOnKeyEstablished sets canBePaced                            *)
negotiateClientParams(c, h) ==
    IF ~ok(c) \/ h.oneRttWriteCipher = None THEN c
    ELSE LET c1 == [c EXCEPT !.canBePaced = TRUE] IN
         IF h.clientParams = NoClientParams
         THEN throw(c1, "TRANSPORT_PARAMETER_ERROR")
         ELSE processClientInitialParams(c1, h.clientParams)

(* ServerStateMachine.cpp 378-385 *)
installOneRttReadCipher(c, h) ==
    IF ~ok(c) \/ ~h.oneRttReadCipher THEN c
    ELSE [c EXCEPT !.writableBytesLimit = None,
                   !.readCodec.oneRttReadCipher = TRUE]

(* ServerStateMachine.cpp 386-394 *)
installHandshakeReadCipher(c, h) ==
    IF ~ok(c) \/ ~h.handshakeReadCipher THEN c
    ELSE [c EXCEPT !.readCodec.handshakeReadCipher = TRUE]

(* the same queueing the frame whenever the handshake is done *)
sendHandshakeDoneEveryTime(c, h) ==
    IF ~ok(c) \/ ~h.isHandshakeDone THEN c
    ELSE [sendSimpleFrame(c, "HANDSHAKE_DONE")
             EXCEPT !.sentHandshakeDone = TRUE]

(* ServerStateMachine.cpp 395-401 *)
sendHandshakeDone(c, h) ==
    IF ~ok(c) \/ ~h.isHandshakeDone THEN c
    ELSE IF ~c.sentHandshakeDone
    THEN [sendSimpleFrame(c, "HANDSHAKE_DONE")
             EXCEPT !.sentHandshakeDone = TRUE]
    ELSE c

(* ServerStateMachine.cpp 322-402 *)
updateHandshakeState(c, h) ==
    LET c1 == installZeroRttReadCipher(c, h)
        c2 == installOneRttWriteCipher(c1, h)
        c3 == negotiateClientParams(c2, h)
        c4 == installOneRttReadCipher(c3, h)
        c5 == installHandshakeReadCipher(c4, h)
    IN sendHandshakeDone(c5, h)

(* The CHECK of line 396 aborts the process when the handshake layer       *)
(* reports done before the 1-RTT write cipher is there; the handshake      *)
(* layer never does that, so such outputs are not inputs of the model.     *)
handshakeOutputAdmissible(c, h) ==
    h.isHandshakeDone =>
        (c.oneRttWriteCipher # None \/ h.oneRttWriteCipher # None)

---------------------------------------------------------------------------
(* RTT estimation and the congestion/RTT state kept across migrations.     *)
(* Times are microseconds here, seconds for the clock.  kDefaultMinRtt is  *)
(* std::chrono::microseconds::max(); the model writes it as a number above *)
(* every sample.                                                           *)

kRttAlpha == 8
kRttBeta == 4
kMaxNumMigrationsAllowed == 6
kTimeToRetainLastCongestionAndRttState == 60

(* the filter without the sample's share *)
updateRttDroppingSample(c, rttSampleIn, ackDelay) ==
    [c EXCEPT !.lossState.maxAckDelay = Max(@, ackDelay),
              !.lossState.mrtt = Min(@, rttSampleIn),
              !.lossState.lrtt = rttSampleIn,
              !.lossState.srtt = IF @ = 0 THEN rttSampleIn
                                 ELSE (@ * (kRttAlpha - 1)) \div kRttAlpha]

(* the default is looked for in the minimum that includes the sample *)
updateRttComparingNewMinRtt(c, rttSampleIn, ackDelay) ==
    LET ls == c.lossState
        minRtt == Min(ls.mrtt, rttSampleIn)
        rttSample == IF /\ rttSampleIn > ackDelay
                        /\ (rttSampleIn > minRtt + ackDelay
                               \/ minRtt = kDefaultMinRtt)
                     THEN rttSampleIn - ackDelay ELSE rttSampleIn
    IN [c EXCEPT !.lossState.maxAckDelay = Max(@, ackDelay),
                 !.lossState.mrtt = minRtt,
                 !.lossState.lrtt = rttSample,
                 !.lossState.srtt =
                     IF @ = 0 THEN rttSample
                     ELSE (@ * (kRttAlpha - 1)) \div kRttAlpha
                            + rttSample \div kRttAlpha]

(* QuicStateFunctions.cpp 41-74 *)
updateRtt(c, rttSampleIn, ackDelay) ==
    LET ls == c.lossState
        minRtt == Min(ls.mrtt, rttSampleIn)
        shouldUseAckDelay ==
            /\ rttSampleIn > ackDelay
            /\ (rttSampleIn > minRtt + ackDelay \/ ls.mrtt = kDefaultMinRtt)
        rttSample == IF shouldUseAckDelay THEN rttSampleIn - ackDelay
                     ELSE rttSampleIn
    IN [c EXCEPT !.lossState =
         [ maxAckDelay |-> Max(ls.maxAckDelay, ackDelay),
           mrtt |-> minRtt,
           lrtt |-> rttSample,
           srtt |-> IF ls.srtt = 0 THEN rttSample
                    ELSE (ls.srtt * (kRttAlpha - 1)) \div kRttAlpha
                           + rttSample \div kRttAlpha,
           rttvar |-> IF ls.srtt = 0 THEN rttSample \div 2
                      ELSE (ls.rttvar * (kRttBeta - 1)) \div kRttBeta
                             + (IF ls.srtt > rttSample THEN ls.srtt - rttSample
                                ELSE rttSample - ls.srtt) \div kRttBeta ]]

(* ServerStateMachine.cpp 49-60: the controller is moved out of conn       *)
moveCurrentCongestionAndRttState(c, t) ==
    [ present |-> TRUE,
      peerAddress |-> c.peerAddress,
      recordTime |-> t,
      congestionController |-> c.congestionController,
      srtt |-> c.lossState.srtt,
      lrtt |-> c.lossState.lrtt,
      rttvar |-> c.lossState.rttvar,
      mrtt |-> c.lossState.mrtt ]

(* ServerStateMachine.cpp 62-72: the factory makes a new controller        *)
resetCongestionAndRttState(c) ==
    [c EXCEPT !.congestionController = c.controllersMade + 1,
              !.controllersMade = @ + 1,
              !.lossState.srtt = 0,
              !.lossState.lrtt = 0,
              !.lossState.rttvar = 0,
              !.lossState.mrtt = kDefaultMinRtt]

(* the same keeping a saved state however old it is *)
recoverOrResetIgnoringAge(c, peerAddress, t) ==
    LET lastState == c.migrationState.lastCongestionAndRtt IN
    IF lastState.present /\ lastState.peerAddress = peerAddress
    THEN [c EXCEPT !.congestionController = lastState.congestionController,
                   !.lossState.srtt = lastState.srtt,
                   !.lossState.lrtt = lastState.lrtt,
                   !.lossState.rttvar = lastState.rttvar,
                   !.lossState.mrtt = lastState.mrtt,
                   !.migrationState.lastCongestionAndRtt = NoCongestionAndRtt]
    ELSE resetCongestionAndRttState(c)

(* ServerStateMachine.cpp 74-91 *)
recoverOrResetCongestionAndRttState(c, peerAddress, t) ==
    LET lastState == c.migrationState.lastCongestionAndRtt IN
    IF /\ lastState.present
       /\ lastState.peerAddress = peerAddress
       /\ t - lastState.recordTime <= kTimeToRetainLastCongestionAndRttState
    THEN [c EXCEPT !.congestionController = lastState.congestionController,
                   !.lossState.srtt = lastState.srtt,
                   !.lossState.lrtt = lastState.lrtt,
                   !.lossState.rttvar = lastState.rttvar,
                   !.lossState.mrtt = lastState.mrtt,
                   !.migrationState.lastCongestionAndRtt = NoCongestionAndRtt]
    ELSE resetCongestionAndRttState(c)

---------------------------------------------------------------------------
(* Migration. *)

Contains(seq, x) == \E i \in DOMAIN seq : seq[i] = x

(* std::find + erase: the first occurrence is removed *)
EraseFirst(seq, x) ==
    LET i == CHOOSE j \in DOMAIN seq :
                 seq[j] = x /\ \A k \in 1..(j - 1) : seq[k] # x
    IN SubSeq(seq, 1, i - 1) \o SubSeq(seq, i + 1, Len(seq))

(* the limit tested one migration too late *)
tooManyMigrationsOffByOne(c) ==
    c.migrationState.numMigrations > kMaxNumMigrationsAllowed

(* ServerStateMachine.cpp 491 *)
tooManyMigrations(c) ==
    c.migrationState.numMigrations >= kMaxNumMigrationsAllowed

(* a PATH_CHALLENGE queued before stays queued for a known address *)
schedulePathChallengeKeepingQueued(c, newPeerAddress, pathData) ==
    IF ~Contains(c.migrationState.previousPeerAddresses, newPeerAddress)
    THEN [c EXCEPT !.pendingEvents.pathChallenge = pathData,
                   !.pathValidationLimiter = TRUE]
    ELSE [c EXCEPT !.migrationState.previousPeerAddresses =
                       EraseFirst(@, newPeerAddress)]

(* an address the peer returns to stays in the list *)
schedulePathChallengeKeepingListed(c, newPeerAddress, pathData) ==
    LET c1 == [c EXCEPT !.pendingEvents.pathChallenge = None] IN
    IF ~Contains(c.migrationState.previousPeerAddresses, newPeerAddress)
    THEN [c1 EXCEPT !.pendingEvents.pathChallenge = pathData,
                    !.pathValidationLimiter = TRUE]
    ELSE c1

(* ServerStateMachine.cpp 507-529: the PATH_CHALLENGE of the new path      *)
schedulePathChallenge(c, newPeerAddress, pathData) ==
    LET c1 == [c EXCEPT !.pendingEvents.pathChallenge = None] IN
    IF ~Contains(c.migrationState.previousPeerAddresses, newPeerAddress)
    THEN [c1 EXCEPT !.pendingEvents.pathChallenge = pathData,
                    !.pathValidationLimiter = TRUE]
    ELSE [c1 EXCEPT !.migrationState.previousPeerAddresses =
                        EraseFirst(@, newPeerAddress)]

(* the congestion and RTT state changed on a rebinding too *)
updateCongestionOnRebindingToo(c, newPeerAddress, hasPendingPathChallenge, t) ==
    IF hasPendingPathChallenge \/ c.outstandingPathValidation # None
    THEN recoverOrResetCongestionAndRttState(
             [c EXCEPT !.pendingEvents.schedulePathValidationTimeout = FALSE,
                       !.outstandingPathValidation = None],
             newPeerAddress, t)
    ELSE LET c1 == [c EXCEPT !.migrationState.previousPeerAddresses =
                                 Append(@, c.peerAddress)]
         IN [recoverOrResetCongestionAndRttState(c1, newPeerAddress, t)
                EXCEPT !.migrationState.lastCongestionAndRtt =
                           moveCurrentCongestionAndRttState(c1, t)]

(* ServerStateMachine.cpp 531-556; hasPendingPathChallenge is what         *)
(* pendingEvents.pathChallenge held when the call began                    *)
updateCongestionOnMigration(c, newPeerAddress, hasPendingPathChallenge, t) ==
    LET isNATRebinding == maybeNATRebinding(newPeerAddress, c.peerAddress) IN
    IF hasPendingPathChallenge \/ c.outstandingPathValidation # None
    THEN LET c1 == [c EXCEPT !.pendingEvents.schedulePathValidationTimeout = FALSE,
                             !.outstandingPathValidation = None]
         IN IF ~isNATRebinding
            THEN recoverOrResetCongestionAndRttState(c1, newPeerAddress, t)
            ELSE c1
    ELSE LET c1 == [c EXCEPT !.migrationState.previousPeerAddresses =
                                 Append(@, c.peerAddress)]
         IN IF ~isNATRebinding
            THEN LET state == moveCurrentCongestionAndRttState(c1, t)
                     c2 == recoverOrResetCongestionAndRttState(
                               c1, newPeerAddress, t)
                 IN [c2 EXCEPT !.migrationState.lastCongestionAndRtt = state]
            ELSE c1

(* ServerStateMachine.cpp 487-562; pathData is what secureRandom returns   *)
onConnectionMigration(c, newPeerAddress, pathData, t) ==
    IF ~ok(c) THEN c
    ELSE IF tooManyMigrations(c) THEN throw(c, "INVALID_MIGRATION")
    ELSE LET c1 == [c EXCEPT !.migrationState.numMigrations = @ + 1]
             hasPendingPathChallenge == c.pendingEvents.pathChallenge # None
             c2 == schedulePathChallenge(c1, newPeerAddress, pathData)
             c3 == updateCongestionOnMigration(
                       c2, newPeerAddress, hasPendingPathChallenge, t)
         IN [c3 EXCEPT !.peerAddress = newPeerAddress]

---------------------------------------------------------------------------
(* The read path.  A datagram is what the codec makes of it: readData is   *)
(* [peer, invariant, packets], invariant the outcome of parsing the long   *)
(* header invariant of the first byte, and each packet                     *)
(* [kind, protectionType, packetNum, frames, h]: kind is "DATA" for a      *)
(* packet that decrypts when its cipher is installed, frames the frame     *)
(* types in order, h what the handshake layer yields (as                   *)
(* updateHandshakeState reads it) once the packet's crypto data is read.   *)

kMaxNumCoalescedPackets == 5

(* codec/Types: the encryption level and packet-number space of a packet   *)
protectionTypeToEncryptionLevel(protectionType) ==
    CASE protectionType = "Initial" -> "Initial"
      [] protectionType = "Handshake" -> "Handshake"
      [] protectionType = "ZeroRtt" -> "EarlyData"
      [] OTHER -> "AppData"

protectionTypeToPacketNumberSpace(protectionType) ==
    CASE protectionType = "Initial" -> "Initial"
      [] protectionType = "Handshake" -> "Handshake"
      [] OTHER -> "AppData"

(* QuicStreamFunctions: the crypto stream of an encryption level           *)
getCryptoStream(encryptionLevel) ==
    CASE encryptionLevel = "Initial" -> "initialStream"
      [] encryptionLevel = "Handshake" -> "handshakeStream"
      [] OTHER -> "oneRttStream"

(* QuicReadCodec: the read cipher of a protection type is installed        *)
hasReadCipher(c, protectionType) ==
    CASE protectionType = "Initial" -> c.readCodec.initialReadCipher
      [] protectionType = "Handshake" -> c.readCodec.handshakeReadCipher
      [] protectionType = "ZeroRtt" -> c.readCodec.zeroRttReadCipher
      [] OTHER -> c.readCodec.oneRttReadCipher

(* QuicReadCodec::parsePacket: the type of the CodecResult                 *)
parsePacket(c, pkt) ==
    CASE pkt.kind = "DATA" ->
             IF hasReadCipher(c, pkt.protectionType)
             THEN "REGULAR_PACKET" ELSE "CIPHER_UNAVAILABLE"
      [] pkt.kind = "CIPHER_UNAVAILABLE_EMPTY" -> "CIPHER_UNAVAILABLE"
      [] OTHER -> pkt.kind

(* the budget tested after the packet is buffered *)
pendingDataFullOffByOne(c) ==
    Len(c.pendingZeroRttData.packets) + Len(c.pendingOneRttData.packets)
        > c.transportSettings.maxPacketsToBuffer

(* ServerStateMachine.cpp 598-601 *)
pendingDataFull(c) ==
    Len(c.pendingZeroRttData.packets) + Len(c.pendingOneRttData.packets)
        >= c.transportSettings.maxPacketsToBuffer

(* ServerStateMachine.cpp 577-631; of a buffered packet the model keeps    *)
(* the protection type                                                     *)
handleCipherUnavailable(c, pkt, peer) ==
    LET pendingReadData == [protectionType |-> pkt.protectionType]
    IN IF pkt.kind = "CIPHER_UNAVAILABLE_EMPTY" THEN c
       ELSE IF pkt.protectionType # "ZeroRtt"
                /\ pkt.protectionType # "KeyPhaseZero" THEN c
       ELSE IF pendingDataFull(c) THEN c
       ELSE IF pkt.protectionType = "ZeroRtt"
            THEN IF c.pendingZeroRttData.present
                 THEN [c EXCEPT !.pendingZeroRttData.packets =
                                     Append(@, pendingReadData)]
                 ELSE c
            ELSE IF c.pendingOneRttData.present
                 THEN [c EXCEPT !.pendingOneRttData.packets =
                                     Append(@, pendingReadData)]
                 ELSE c

kConnIdEncodingRetryLimit == 16

EncodeError == 0 - 2

(* folly::none for the ConnectionIdData a call returns *)
NoConnIdData == [present |-> FALSE]

(* ConnectionIdAlgo::encodeConnectionId: the next candidate or an error.   *)
(* A candidate is the ordinal number the algorithm gave it.                 *)
encodeConnectionId(c) ==
    [conn |-> [c EXCEPT !.connIdAlgo.encoded = @ + 1],
     encodedCid |-> IF c.connIdAlgo.encoded + 1 = c.connIdAlgo.errorAt
                    THEN EncodeError ELSE c.connIdAlgo.encoded + 1]

rejectConnectionId(c, encodedCid) == encodedCid <= c.connIdRejector.rejectUpTo

(* ServerStateMachine.cpp 1412-1417: the loop, entered with a candidate;   *)
(* ++encodedTimes is evaluated only when the candidate was rejected        *)
RECURSIVE encodeUntilAccepted(_, _, _)
encodeUntilAccepted(c, encodedCid, encodedTimes) ==
    IF /\ encodedCid # EncodeError
       /\ c.connIdRejector.present
       /\ rejectConnectionId(c, encodedCid)
    THEN IF encodedTimes + 1 < kConnIdEncodingRetryLimit
         THEN LET next == encodeConnectionId(c)
              IN encodeUntilAccepted(next.conn, next.encodedCid, encodedTimes + 1)
         ELSE [conn |-> c, encodedCid |-> encodedCid,
               encodedTimes |-> encodedTimes + 1]
    ELSE [conn |-> c, encodedCid |-> encodedCid, encodedTimes |-> encodedTimes]

(* ServerStateMachine.cpp 1397-1427 *)
createAndAddNewSelfConnId(c) ==
    LET first == encodeConnectionId(c)
        last  == encodeUntilAccepted(first.conn, first.encodedCid, 0)
        logged == last.encodedTimes = kConnIdEncodingRetryLimit
    IN IF last.encodedCid = EncodeError
       THEN [conn |-> last.conn, newConnIdData |-> NoConnIdData, loggedError |-> logged]
       ELSE LET newConnIdData ==
                    [present |-> TRUE, connId |-> last.encodedCid,
                     sequenceNumber |->
                         last.conn.nextSelfConnectionIdSequence]
            IN [conn |-> [last.conn EXCEPT
                            !.nextSelfConnectionIdSequence = @ + 1,
                            !.selfConnectionIds = Append(@, newConnIdData)],
                newConnIdData |-> newConnIdData,
                loggedError |-> logged]

(* ServerStateMachine.cpp 642-745: the first packet from the peer.  The    *)
(* server issues its first connection ID (694-701); CHECK_FAILED is the    *)
(* abort of the CHECK of line 700 when no ID came back.                    *)
acceptFirstPacket(c, readData) ==
    LET r == createAndAddNewSelfConnId(c) IN
    IF r.newConnIdData = NoConnIdData THEN throw(r.conn, "CHECK_FAILED")
    ELSE [r.conn EXCEPT !.serverConnectionId = r.newConnIdData.connId,
                        !.hasReadCodec = TRUE,
                        !.readCodec.initialReadCipher = TRUE,
                        !.initialWriteCipher = TRUE,
                        !.peerAddress = c.originalPeerAddress]

(* ServerStateMachine.cpp 797-814 *)
rejectPacketWithoutFrames(c, pkt) ==
    IF pkt.frames = <<>> THEN throw(c, "PROTOCOL_VIOLATION") ELSE c

isProtectedPacket(pkt) ==
    pkt.protectionType \in {"ZeroRtt", "KeyPhaseZero", "KeyPhaseOne"}

UnprotectedFrames == {"PADDING", "ACK", "CONNECTION_CLOSE", "CRYPTO", "PING"}

(* only the first frame of the packet looked at *)
hasInvalidFrameFirstOnly(pkt) ==
    /\ ~isProtectedPacket(pkt)
    /\ pkt.frames[1] \notin UnprotectedFrames

(* ServerStateMachine.cpp 828-851 *)
hasInvalidFrame(pkt) ==
    /\ ~isProtectedPacket(pkt)
    /\ \E i \in DOMAIN pkt.frames : pkt.frames[i] \notin UnprotectedFrames

rejectInvalidFrame(c, pkt) ==
    IF ~ok(c) THEN c
    ELSE IF hasInvalidFrame(pkt) THEN throw(c, "PROTOCOL_VIOLATION") ELSE c

(* ServerStateMachine.cpp 859-869: long headers carry the version          *)
recordVersion(c, pkt) ==
    IF ~ok(c) \/ c.version # "NONE" THEN c
    ELSE IF pkt.protectionType \in {"KeyPhaseZero", "KeyPhaseOne"}
         THEN throw(c, "PROTOCOL_VIOLATION")
         ELSE [c EXCEPT !.version = "QUIC_V1"]

(* a change of peer address let through whatever the settings say *)
peerAddressChangeRefusedAtHandshakeOnly(c, peer, pkt) ==
    /\ c.peerAddress # peer
    /\ protectionTypeToEncryptionLevel(pkt.protectionType) # "AppData"

(* ServerStateMachine.cpp 871-902 *)
peerAddressChangeRefused(c, peer, pkt) ==
    /\ c.peerAddress # peer
    /\ \/ protectionTypeToEncryptionLevel(pkt.protectionType) # "AppData"
       \/ c.transportSettings.disableMigration

rejectPeerAddressChange(c, peer, pkt) ==
    IF ~ok(c) THEN c
    ELSE IF peerAddressChangeRefused(c, peer, pkt)
         THEN throw(c, "INVALID_MIGRATION") ELSE c

(* state/QuicStateFunctions: whether the packet is the next expected one   *)
isOutOfOrder(ackState, packetNum) ==
    packetNum # (IF ackState.largestReceivedPacketNum # None
                 THEN ackState.largestReceivedPacketNum + 1 ELSE 0)

(* state/QuicStateFunctions: updateLargestReceivedPacketNum                *)
updateLargestReceivedPacketNum(c, s, packetNum) ==
    IF ~ok(c) THEN c
    ELSE [c EXCEPT !.ackStates[s].largestReceivedPacketNum =
                       Max(valueOr(@, packetNum), packetNum)]

(* ServerStateMachine.cpp 912-914, 917-1157: what the frame loop finds     *)
hasRetransmittableData(pkt) ==
    \E i \in DOMAIN pkt.frames :
        pkt.frames[i] \in {"CRYPTO", "STREAM", "PING", "DATAGRAM",
                            "PATH_CHALLENGE", "PATH_RESPONSE",
                            "NEW_CONNECTION_ID"}

hasCryptoData(pkt) ==
    \E i \in DOMAIN pkt.frames : pkt.frames[i] = "CRYPTO"

isNonProbingPacket(pkt) ==
    \E i \in DOMAIN pkt.frames :
        pkt.frames[i] \in {"ACK", "CRYPTO", "STREAM", "CONNECTION_CLOSE", "PING"}

(* what an ACK frame acknowledges: acked are the frames carried by the     *)
(* packet of the server it newly acknowledges, none when it acknowledges   *)
(* no outstanding packet; rttSample and ackDelay are what processAckFrame  *)
(* measures for the largest newly acknowledged packet                      *)
NoAck == [acked |-> {}, rttSample |-> None, ackDelay |-> 0]

(* the connection id the client issues in its NEW_CONNECTION_ID frame *)
NewClientConnId == [connId |-> "cid_client_1", sequenceNumber |-> 1]

(* state/AckHandlers processAckFrame with the visitor of                   *)
(* ServerStateMachine.cpp 928-994: an ACK of a new packet gives the RTT    *)
(* sample to updateRtt and visits the packet's frame; of the visitor's     *)
(* cases the acknowledged PING (975-979) writes a field of the model, the  *)
(* acknowledged HANDSHAKE_DONE (980-988) is found by                       *)
(* handshakeConfirmedThisLoop.  The controller's and the loss detector's   *)
(* own state and the stream and crypto retransmission buffers are not      *)
(* held: the controller is an object identity.                             *)
processAckFrame(c, ack) ==
    IF ack.acked = {} THEN c
    ELSE LET c1 == updateRtt(c, ack.rttSample, ack.ackDelay)
         IN IF "PING" \in ack.acked
            THEN [c1 EXCEPT !.pendingEvents.cancelPingTimeout = TRUE]
            ELSE c1

(* ServerStateMachine.cpp 980-988: an ACK frame of the packet acknowledged *)
(* the HANDSHAKE_DONE frame                                                *)
handshakeConfirmedThisLoop(pkt) ==
    /\ \E i \in DOMAIN pkt.frames : pkt.frames[i] = "ACK"
    /\ "HANDSHAKE_DONE" \in pkt.ack.acked

(* state/QuicStateFunctions handshakeConfirmed: the 1-RTT ciphers are      *)
(* CHECKed, the Initial and Handshake ciphers are dropped                  *)
handshakeConfirmed(c) ==
    IF c.oneRttWriteCipher = None \/ ~c.readCodec.oneRttReadCipher
    THEN throw(c, "CHECK_FAILED")
    ELSE [c EXCEPT !.initialWriteCipher = FALSE,
                   !.readCodec.initialReadCipher = FALSE,
                   !.readCodec.handshakeReadCipher = FALSE]

(* ServerStateMachine.cpp 1159-1161 *)
confirmHandshake(c, pkt) ==
    IF ok(c) /\ handshakeConfirmedThisLoop(pkt) THEN handshakeConfirmed(c)
    ELSE c

(* state/StateData retireAndSwitchPeerConnectionIds: the peer's id in use  *)
(* is retired for the first other one; the connection is left as it was    *)
(* when there is no other                                                  *)
retireAndSwitchPeerConnectionIds(c) ==
    LET others == SelectSeq(c.peerConnectionIds,
                            LAMBDA d : d.connId # c.clientConnectionId)
    IN IF others = <<>> THEN c
       ELSE [c EXCEPT
               !.pendingEvents.frames = Append(@, "RETIRE_CONNECTION_ID"),
               !.clientConnectionId = others[1].connId,
               !.peerConnectionIds = others]

(* state/SimpleFrameFunctions updateSimpleFrameOnPacketReceived, the       *)
(* frames of the model's packets; each of them leaves the packet probing   *)
updateSimpleFrameOnPacketReceived(c, pkt, frame, fromChangedPeerAddress, t) ==
    CASE frame = "PATH_CHALLENGE" ->
             LET c1 == retireAndSwitchPeerConnectionIds(c) IN
             IF c1 = c THEN throw(c, "INVALID_MIGRATION")
             ELSE sendSimpleFrame(c1, "PATH_RESPONSE")
      [] frame = "PATH_RESPONSE" ->
             IF \/ fromChangedPeerAddress
                \/ c.outstandingPathValidation = None
                \/ pkt.pathData # c.outstandingPathValidation
             THEN c
             ELSE updateRtt(
                      [c EXCEPT
                         !.outstandingPathValidation = None,
                         !.pendingEvents.schedulePathValidationTimeout = FALSE],
                      t - c.pathChallengeStartTime, 0)
      [] frame = "NEW_CONNECTION_ID" ->
             IF \/ Contains(c.peerConnectionIds, NewClientConnId)
                \/ Len(c.peerConnectionIds)
                       = c.transportSettings.selfActiveConnectionIdLimit + 1
             THEN c
             ELSE [c EXCEPT !.peerConnectionIds = Append(@, NewClientConnId)]
      [] OTHER -> c

(* ServerStateMachine.cpp 917-1157, one frame.  A STREAM frame is for the  *)
(* client's first bidirectional stream, which getStream opens; what        *)
(* handleDatagram does to the datagram buffers is outside the model, and   *)
(* so are the frames the model's packets do not carry.                     *)
applyFrame(c, readData, pkt, frame, t) ==
    LET level == protectionTypeToEncryptionLevel(pkt.protectionType)
    IN CASE frame = "ACK" -> processAckFrame(c, pkt.ack)
         [] frame = "CRYPTO" ->
                [c EXCEPT !.cryptoState[getCryptoStream(level)] = TRUE]
         [] frame = "STREAM" ->
                [c EXCEPT !.streams = @ \cup {0}]
         [] frame = "CONNECTION_CLOSE" ->
                throw([c EXCEPT !.peerConnectionError = TRUE], "NO_ERROR")
         [] frame \in {"PATH_CHALLENGE", "PATH_RESPONSE", "NEW_CONNECTION_ID"} ->
                updateSimpleFrameOnPacketReceived(
                    c, pkt, frame, readData.peer # c.peerAddress, t)
         [] OTHER -> c

RECURSIVE applyFrames(_, _, _, _, _)
applyFrames(c, readData, pkt, t, i) ==
    IF ~ok(c) \/ i > Len(pkt.frames) THEN c
    ELSE applyFrames(applyFrame(c, readData, pkt, pkt.frames[i], t),
                     readData, pkt, t, i + 1)

(* ServerStateMachine.cpp 450-457 *)
updateWritableByteLimitOnRecvPacket(c) ==
    IF ~ok(c) \/ c.writableBytesLimit = None THEN c
    ELSE [c EXCEPT !.writableBytesLimit =
              @ + c.transportSettings.limitedCwndInMss * c.udpSendPacketLen]

(* a reordered packet migrates the connection too *)
migrateOnReorderedPacket(c, readData, pkt, t) ==
    IF ~ok(c) \/ c.peerAddress = readData.peer THEN c
    ELSE IF isNonProbingPacket(pkt)
         THEN onConnectionMigration(c, readData.peer, readData.pathData, t)
         ELSE throw(c, "INVALID_MIGRATION")

(* the probing packet passed on without an exception *)
ignoreProbingPacket(c, readData, pkt, t) ==
    LET s == protectionTypeToPacketNumberSpace(pkt.protectionType) IN
    IF ~ok(c) \/ c.peerAddress = readData.peer THEN c
    ELSE IF isNonProbingPacket(pkt)
         THEN IF pkt.packetNum = c.ackStates[s].largestReceivedPacketNum
              THEN onConnectionMigration(c, readData.peer, readData.pathData, t)
              ELSE c
         ELSE c

(* ServerStateMachine.cpp 1168-1196 *)
migrateOnPeerAddressChange(c, readData, pkt, t) ==
    LET s == protectionTypeToPacketNumberSpace(pkt.protectionType) IN
    IF ~ok(c) \/ c.peerAddress = readData.peer THEN c
    ELSE IF isNonProbingPacket(pkt)
         THEN IF pkt.packetNum = c.ackStates[s].largestReceivedPacketNum
              THEN onConnectionMigration(c, readData.peer, readData.pathData, t)
              ELSE c
         ELSE throw(c, "INVALID_MIGRATION")

(* ServerStateMachine.cpp 1198-1220: crypto data that can be read goes to  *)
(* the handshake layer, whose outputs updateHandshakeState then takes.     *)
(* CHECK_FAILED is the abort of the CHECK of line 396.                     *)
processCryptoData(c, pkt) ==
    LET stream == getCryptoStream(
                      protectionTypeToEncryptionLevel(pkt.protectionType))
    IN IF ~ok(c) \/ ~c.cryptoState[stream] THEN c
       ELSE IF ~handshakeOutputAdmissible(c, pkt.h)
            THEN throw(c, "CHECK_FAILED")
            ELSE updateHandshakeState(
                     [c EXCEPT !.cryptoState[stream] = FALSE], pkt.h)

(* ServerStateMachine.cpp 1221-1226 *)
updateAckSendState(c, pkt, outOfOrder) ==
    IF ~ok(c) THEN c
    ELSE updateAckSendStateOnRecvPacket(
             c, protectionTypeToPacketNumberSpace(pkt.protectionType),
             outOfOrder, hasRetransmittableData(pkt), hasCryptoData(pkt))

(* ServerStateMachine.cpp 1227-1234 *)
discardInitialKeys(c, pkt) ==
    IF /\ ok(c)
       /\ protectionTypeToEncryptionLevel(pkt.protectionType) = "Handshake"
       /\ c.initialWriteCipher
    THEN [c EXCEPT !.initialWriteCipher = FALSE,
                   !.readCodec.initialReadCipher = FALSE]
    ELSE c

(* ServerStateMachine.cpp 797-1235: a packet the codec decrypted           *)
processRegularPacket(c, readData, pkt, t) ==
    LET s == protectionTypeToPacketNumberSpace(pkt.protectionType)
        c1 == rejectPacketWithoutFrames(c, pkt)
        c2 == rejectInvalidFrame(c1, pkt)
        c3 == recordVersion(c2, pkt)
        c4 == rejectPeerAddressChange(c3, readData.peer, pkt)
        outOfOrder == isOutOfOrder(c4.ackStates[s], pkt.packetNum)
        c5 == updateLargestReceivedPacketNum(c4, s, pkt.packetNum)
        c6 == confirmHandshake(applyFrames(c5, readData, pkt, t, 1), pkt)
        c7 == updateWritableByteLimitOnRecvPacket(c6)
        c8 == migrateOnPeerAddressChange(c7, readData, pkt, t)
        c9 == processCryptoData(c8, pkt)
        c10 == updateAckSendState(c9, pkt, outOfOrder)
    IN discardInitialKeys(c10, pkt)

(* ServerStateMachine.cpp 751-796: one iteration of the packet loop        *)
processPacket(c, readData, pkt, t) ==
    LET type == parsePacket(c, pkt) IN
    CASE type = "CIPHER_UNAVAILABLE" ->
             handleCipherUnavailable(c, pkt, readData.peer)
      [] type = "REGULAR_PACKET" -> processRegularPacket(c, readData, pkt, t)
      [] OTHER -> c

RECURSIVE processPackets(_, _, _, _)
processPackets(c, readData, processedPackets, t) ==
    IF \/ ~ok(c)
       \/ processedPackets >= Len(readData.packets)
       \/ processedPackets >= kMaxNumCoalescedPackets
    THEN c
    ELSE processPackets(
             processPacket(c, readData, readData.packets[processedPackets + 1], t),
             readData, processedPackets + 1, t)

(* ServerStateMachine.cpp 633-1241 *)
onServerReadDataFromOpen(c, readData, t) ==
    IF readData.packets = <<>> THEN c
    ELSE IF ~c.hasReadCodec
         THEN IF readData.invariant # "OK" THEN c
              ELSE processPackets(acceptFirstPacket(c, readData), readData, 0, t)
         ELSE processPackets(c, readData, 0, t)

(* ServerStateMachine.cpp 1354-1373: only the close frames are processed   *)
hasConnectionCloseFrame(pkt) ==
    \E i \in DOMAIN pkt.frames : pkt.frames[i] = "CONNECTION_CLOSE"

(* the frames of a packet read in state Closed are applied as in Open *)
onServerReadDataFromClosedApplyingFrames(c, readData) ==
    IF ~c.hasReadCodec \/ c.peerConnectionError \/ readData.packets = <<>> THEN c
    ELSE LET pkt == readData.packets[1]
             s == protectionTypeToPacketNumberSpace(pkt.protectionType)
         IN IF parsePacket(c, pkt) # "REGULAR_PACKET" THEN c
            ELSE IF pkt.frames = <<>> THEN throw(c, "PROTOCOL_VIOLATION")
            ELSE [applyFrames(c, readData, pkt, 0, 1) EXCEPT
                    !.err = c.err,
                    !.ackStates[s].largestReceivedPacketNum =
                        Max(valueOr(@, pkt.packetNum), pkt.packetNum)]

(* ServerStateMachine.cpp 1243-1381: the first packet of the datagram      *)
onServerReadDataFromClosed(c, readData) ==
    IF ~c.hasReadCodec \/ c.peerConnectionError \/ readData.packets = <<>> THEN c
    ELSE LET pkt == readData.packets[1]
             s == protectionTypeToPacketNumberSpace(pkt.protectionType)
         IN IF parsePacket(c, pkt) # "REGULAR_PACKET" THEN c
            ELSE IF pkt.frames = <<>> THEN throw(c, "PROTOCOL_VIOLATION")
            ELSE [c EXCEPT
                    !.peerConnectionError = hasConnectionCloseFrame(pkt),
                    !.ackStates[s].largestReceivedPacketNum =
                        Max(valueOr(@, pkt.packetNum), pkt.packetNum)]

(* ServerStateMachine.cpp 564-575 *)
onServerReadData(c, readData, t) ==
    IF c.state = "Open" THEN onServerReadDataFromOpen(c, readData, t)
    ELSE onServerReadDataFromClosed(c, readData)

(* a close that reopens a closed connection *)
onServerCloseToggling(c) ==
    [c EXCEPT !.state = IF @ = "Open" THEN "Closed" ELSE "Open"]

(* ServerStateMachine.cpp 1393-1395 *)
onServerCloseOpenState(c) == [c EXCEPT !.state = "Closed"]

(* ServerStateMachine.cpp 1383-1391 *)
onServerClose(c) ==
    IF c.state = "Open" THEN onServerCloseOpenState(c) ELSE c

---------------------------------------------------------------------------
(* Inputs of the model. *)

BaseParams == [
    preferred_address |-> None,
    original_destination_connection_id |-> None,
    stateless_reset_token |-> None,
    retry_source_connection_id |-> None,
    initial_max_data |-> 1000000,
    initial_max_stream_data_bidi_local |-> 65536,
    initial_max_stream_data_bidi_remote |-> 65536,
    initial_max_stream_data_uni |-> 65536,
    initial_max_streams_bidi |-> 10,
    initial_max_streams_uni |-> 10,
    idle_timeout |-> 1000,
    ack_delay_exponent |-> None,
    max_packet_size |-> None,
    min_ack_delay |-> None,
    max_ack_delay |-> None,
    max_datagram_frame_size |-> None,
    initial_source_connection_id |-> ClientConnId ]

(* The values each parameter is drawn from: absent, and the values on both *)
(* sides of every comparison the code makes.                               *)
ParamValues == [
    preferred_address |-> {None, 0, 1},
    original_destination_connection_id |-> {None, 0, 1},
    stateless_reset_token |-> {None, 0, 1},
    retry_source_connection_id |-> {None, 0, 1},
    initial_max_data |-> {None, 1000000},
    initial_max_stream_data_bidi_local |-> {None, 65536},
    initial_max_stream_data_bidi_remote |-> {None, 65536},
    initial_max_stream_data_uni |-> {None, 65536},
    initial_max_streams_bidi |-> {None, 10, kMaxMaxStreams, kMaxMaxStreams + 1},
    initial_max_streams_uni |-> {None, 10, kMaxMaxStreams, kMaxMaxStreams + 1},
    idle_timeout |-> {None, 1000, kMaxIdleTimeout + 1},
    ack_delay_exponent |-> {None, kMaxAckDelayExponent, kMaxAckDelayExponent + 1},
    max_packet_size |-> {None, kMinMaxUDPPayload - 1, kMinMaxUDPPayload,
                         kDefaultMaxUDPPayload, kDefaultMaxUDPPayload + 1},
    min_ack_delay |-> {None, 1000},
    max_ack_delay |-> {None, kMaxAckDelay - 1, kMaxAckDelay, kMaxAckDelay + 1},
    max_datagram_frame_size |-> {None, 0, 1, kMaxDatagramPacketOverhead,
                                 kMaxDatagramPacketOverhead + 1},
    initial_source_connection_id |-> {"absent", ClientConnId, "cid_other"} ]

ParamFields == DOMAIN ParamValues

(* BaseParams with the fields f1 and f2 set to v1 and v2 *)
withParams(f1, v1, f2, v2) ==
    [f \in ParamFields |->
        IF f = f2 THEN v2 ELSE IF f = f1 THEN v1 ELSE BaseParams[f]]

(* every parameter set that differs from BaseParams in at most two fields *)
ClientParamSets ==
    UNION { UNION { { withParams(f1, v1, f2, v2) :
                        v1 \in ParamValues[f1], v2 \in ParamValues[f2] }
                    : f2 \in ParamFields }
            : f1 \in ParamFields }

Versions == {"QUIC_V1", "QUIC_DRAFT", "MVFST"}

(* the handshake layer yields nothing *)
NoOutputs ==
    [ zeroRttReadCipher |-> FALSE, oneRttWriteCipher |-> None,
      oneRttReadCipher |-> FALSE, handshakeReadCipher |-> FALSE,
      clientParams |-> NoClientParams, isHandshakeDone |-> FALSE ]

(* the client's first datagram: one Initial packet, number 0, of padding   *)
FirstDatagram ==
    [ peer |-> A1, invariant |-> "OK", pathData |-> 1,
      packets |-> << [ kind |-> "DATA", protectionType |-> "Initial",
                       packetNum |-> 0, frames |-> <<"PADDING">>,
                       h |-> NoOutputs, ack |-> NoAck, pathData |-> None ] >> ]

(* the connection after it read the client's first datagram: the server's  *)
(* first connection ID, codec, Initial ciphers and peer address of lines   *)
(* 694-745, the version of line 865 and the packet in the Initial ack      *)
(* state                                                                   *)
EstablishedConn == onServerReadData(InitConn, FirstDatagram, 0)

begin(c) == [c EXCEPT !.err = "NONE"]

---------------------------------------------------------------------------
(* SpecParams: processClientInitialParams applied once to a connection of  *)
(* each version, with and without canIgnorePathMTU, on every parameter set *)
(* of ClientParamSets.                                                     *)

InitParams ==
    /\ \E v \in Versions, canIgnorePathMTU \in BOOLEAN :
         conn = [EstablishedConn EXCEPT
                    !.version = v,
                    !.transportSettings.canIgnorePathMTU = canIgnorePathMTU]
    /\ now = 0
    /\ hist = [op |-> "init"]

ProcessClientInitialParams ==
    /\ hist.op = "init"
    /\ \E p \in ClientParamSets :
         /\ conn' = processClientInitialParams(begin(conn), p)
         /\ hist' = [op |-> "processClientInitialParams", p |-> p]
    /\ UNCHANGED now

NextParams == ProcessClientInitialParams

SpecParams == InitParams /\ [][NextParams]_vars

(* the conditions C9 lists *)
C9_Listed(c, p) ==
    \/ p.preferred_address \notin {None, 0}
    \/ p.original_destination_connection_id \notin {None, 0}
    \/ p.stateless_reset_token \notin {None, 0}
    \/ p.retry_source_connection_id \notin {None, 0}
    \/ p.max_ack_delay # None /\ p.max_ack_delay >= kMaxAckDelay
    \/ p.max_packet_size # None /\ p.max_packet_size < kMinMaxUDPPayload
    \/ p.ack_delay_exponent # None /\ p.ack_delay_exponent > kMaxAckDelayExponent
    \/ /\ c.version \in {"QUIC_V1", "QUIC_DRAFT"}
       /\ p.initial_source_connection_id # c.clientConnectionId
    \/ /\ p.max_datagram_frame_size # None
       /\ p.max_datagram_frame_size > 0
       /\ p.max_datagram_frame_size <= kMaxDatagramPacketOverhead

(* C9: processClientInitialParams raises TRANSPORT_PARAMETER_ERROR when    *)
(* one of the listed conditions holds and returns normally when none does. *)
C9_RejectsExactlyListed ==
    hist.op = "processClientInitialParams" =>
        IF C9_Listed(conn, hist.p)
        THEN conn.err = "TRANSPORT_PARAMETER_ERROR"
        ELSE conn.err = "NONE"

---------------------------------------------------------------------------
(* SpecHandshake: updateHandshakeState called any number of times on an    *)
(* established connection, the handshake layer handing over any            *)
(* combination of ciphers, client parameters and "done" in each call.      *)

HandshakeParamSets == {
    NoClientParams,
    BaseParams,
    withParams("initial_max_data", 1000000,
               "ack_delay_exponent", kMaxAckDelayExponent + 1),
    withParams("initial_max_data", 1000000,
               "max_ack_delay", kMaxAckDelay + 1) }

HandshakeOutputs ==
    [ zeroRttReadCipher : BOOLEAN,
      oneRttWriteCipher : {None} \cup (1..MaxCipherId),
      oneRttReadCipher : BOOLEAN,
      handshakeReadCipher : BOOLEAN,
      clientParams : HandshakeParamSets,
      isHandshakeDone : BOOLEAN ]

NumQueued(c, frame) ==
    Cardinality({i \in DOMAIN c.pendingEvents.frames :
                    c.pendingEvents.frames[i] = frame})

InitHandshake ==
    /\ conn = EstablishedConn
    /\ now = 0
    /\ hist = [op |-> "init"]

UpdateHandshakeState ==
    /\ \E h \in HandshakeOutputs :
         /\ handshakeOutputAdmissible(conn, h)
         /\ conn' = updateHandshakeState(begin(conn), h)
         /\ hist' = [op |-> "updateHandshakeState",
                      h |-> [oneRttWriteCipher |-> h.oneRttWriteCipher,
                             isHandshakeDone |-> h.isHandshakeDone]]
    /\ UNCHANGED now

NextHandshake == UpdateHandshakeState

SpecHandshake == InitHandshake /\ [][NextHandshake]_vars

(* C1: once the 1-RTT write cipher is installed it is never replaced, and  *)
(* a call in which the handshake layer yields a 1-RTT write cipher while   *)
(* one is installed raises CRYPTO_ERROR.                                   *)
C1_OneRttWriteCipherInstalledOnce ==
    [][ conn.oneRttWriteCipher # None =>
          /\ conn'.oneRttWriteCipher = conn.oneRttWriteCipher
          /\ (hist'.h.oneRttWriteCipher # None => conn'.err = "CRYPTO_ERROR") ]_vars

(* a second cipher was yielded while the first was installed, and refused  *)
C1_Witness ==
    /\ hist.op = "updateHandshakeState"
    /\ hist.h.oneRttWriteCipher = 2
    /\ conn.oneRttWriteCipher = 1
    /\ conn.err = "CRYPTO_ERROR"

(* C8 as stated: HANDSHAKE_DONE is queued at most once over all calls;    *)
(* every call in which the handshake layer reports done leaves exactly one *)
(* queued (so the first such call queues it and later ones add none), and  *)
(* a call in which done is not reported queues none.  A first done call    *)
(* that raises at ServerStateMachine.cpp 359-362 or 370-373 queues none.   *)
C8_HandshakeDoneOnFirstDoneCall ==
    [][ /\ NumQueued(conn', "HANDSHAKE_DONE") <= 1
        /\ NumQueued(conn', "HANDSHAKE_DONE") >= NumQueued(conn, "HANDSHAKE_DONE")
        /\ (hist'.h.isHandshakeDone => NumQueued(conn', "HANDSHAKE_DONE") = 1)
        /\ (~hist'.h.isHandshakeDone
              => NumQueued(conn', "HANDSHAKE_DONE") = NumQueued(conn, "HANDSHAKE_DONE"))
      ]_vars

(* C8, amended: HANDSHAKE_DONE is queued at most once over all calls; a    *)
(* call that returns normally with the handshake layer reporting done      *)
(* leaves exactly one queued (so the first such call queues it and later   *)
(* ones add none), and a call in which done is not reported queues none.   *)
C8_HandshakeDoneOnce ==
    [][ /\ NumQueued(conn', "HANDSHAKE_DONE") <= 1
        /\ NumQueued(conn', "HANDSHAKE_DONE") >= NumQueued(conn, "HANDSHAKE_DONE")
        /\ (hist'.h.isHandshakeDone /\ conn'.err = "NONE"
              => NumQueued(conn', "HANDSHAKE_DONE") = 1)
        /\ (~hist'.h.isHandshakeDone
              => NumQueued(conn', "HANDSHAKE_DONE") = NumQueued(conn, "HANDSHAKE_DONE"))
      ]_vars

(* done was reported again after the frame was queued, and none was added  *)
C8_Witness ==
    /\ hist.op = "updateHandshakeState"
    /\ hist.h.isHandshakeDone
    /\ hist.h.oneRttWriteCipher = None
    /\ conn.err = "NONE"
    /\ conn.sentHandshakeDone
    /\ NumQueued(conn, "HANDSHAKE_DONE") = 1

---------------------------------------------------------------------------
(* SpecAck: the ACK-scheduling functions called in any order on the three  *)
(* packet-number spaces, starting right after an ACK of packet 0 was sent  *)
(* in each (counters zero, latch clear).  Every space has the tolerance    *)
(* (None or explicit) and the ignoreReorder flag chosen at the start.  hist.rxSinceAck counts *)
(* (up to MaxTolerance) the retransmittable packets a space received since *)
(* an ACK was last sent for it.                                            *)

Tolerances == {None} \cup (1..MaxTolerance)

(* the packet numbers an ACK written for a space may report as largest *)
AckedPacketNums == {0, 1}

NonRxPacketsCounted(c) ==
    c.ackStates["Initial"].numNonRxPacketsRecvd
      + c.ackStates["Handshake"].numNonRxPacketsRecvd
      + c.ackStates["AppData"].numNonRxPacketsRecvd

InitAck ==
    /\ \E t \in Tolerances, ig \in BOOLEAN :
         conn = [EstablishedConn EXCEPT
                    !.ackStates = [s \in PacketNumberSpaces |->
                        [InitAckState EXCEPT !.tolerance = t,
                                             !.ignoreReorder = ig,
                                             !.largestAckScheduled = 0]],
                    !.transportSettings.rxPacketsBeforeAckInitThreshold = 1,
                    !.transportSettings.rxPacketsBeforeAckBeforeInit = 2,
                    !.transportSettings.rxPacketsBeforeAckAfterInit = 3]
    /\ now = 0
    /\ hist = [op |-> "init",
               rxSinceAck |-> [s \in PacketNumberSpaces |-> 0]]

AckRecvPacket ==
    /\ \E s \in PacketNumberSpaces, pktOutOfOrder \in BOOLEAN,
          pktHasRetransmittableData \in BOOLEAN, pktHasCryptoData \in BOOLEAN :
         /\ pktHasCryptoData => pktHasRetransmittableData      \* DCHECK, line 82
         /\ pktHasRetransmittableData
              \/ NonRxPacketsCounted(conn) < MaxNonRxPackets
         /\ conn' = updateAckSendStateOnRecvPacket(
                        begin(conn), s, pktOutOfOrder,
                        pktHasRetransmittableData, pktHasCryptoData)
         /\ hist' = [op |-> "recv", space |-> s,
                     pktOutOfOrder |-> pktOutOfOrder,
                     pktHasRetransmittableData |-> pktHasRetransmittableData,
                     pktHasCryptoData |-> pktHasCryptoData,
                     rxSinceAck |-> [hist.rxSinceAck EXCEPT ![s] =
                         IF pktHasRetransmittableData
                         THEN Min(@ + 1, MaxTolerance) ELSE @]]
    /\ UNCHANGED now

(* the ack timer fires only when it was scheduled *)
AckTimeout ==
    /\ hist.op # "init"
    /\ conn.pendingEvents.scheduleAckTimeout
    /\ conn' = updateAckStateOnAckTimeout(begin(conn))
    /\ hist' = [op |-> "ackTimeout", rxSinceAck |-> hist.rxSinceAck]
    /\ UNCHANGED now

(* a packet carrying an ACK frame of space s was written, reporting one of *)
(* nums as the largest packet number it acknowledges                       *)
AckSentWith(nums) ==
    /\ \E s \in PacketNumberSpaces, largestAckScheduled \in nums :
         /\ hist.op # "init"
         /\ conn' = updateAckSendStateOnSentPacketWithAcks(
                        begin(conn), s, largestAckScheduled)
         /\ hist' = [op |-> "ackSent", space |-> s,
                     largestAckScheduled |-> largestAckScheduled,
                     rxSinceAck |-> [hist.rxSinceAck EXCEPT ![s] = 0]]
    /\ UNCHANGED now

AckSent == AckSentWith({0})

NextAck == AckRecvPacket \/ AckTimeout \/ AckSent

SpecAck == InitAck /\ [][NextAck]_vars

(* SpecAckSent: the same calls on a connection that keeps the default      *)
(* ignoreReorder = false, the ACKs written reporting different packet      *)
(* numbers.                                                                *)
InitAckSent ==
    /\ InitAck
    /\ \A s \in PacketNumberSpaces : ~conn.ackStates[s].ignoreReorder

AckSentReporting == AckSentWith(AckedPacketNums)

NextAckSent == AckRecvPacket \/ AckTimeout \/ AckSentReporting

SpecAckSent == InitAckSent /\ [][NextAckSent]_vars

(* C10: with an explicit tolerance T, a space whose latch is clear has     *)
(* received fewer than T retransmittable packets since its last ACK was    *)
(* sent (so the latch is set by the T-th at the latest); a retransmittable *)
(* packet that carries crypto data, or that is out of order while          *)
(* ignoreReorder is off, leaves the latch set; with ignoreReorder on, an   *)
(* out-of-order retransmittable packet without crypto data that keeps the  *)
(* packet count below T leaves a clear latch clear.                        *)
C10_LatchWithinTolerance ==
    [][ \A s \in PacketNumberSpaces :
          LET a == conn.ackStates[s]
              b == conn'.ackStates[s]
              T == a.tolerance
              recv == hist'.op = "recv" /\ hist'.space = s
                         /\ hist'.pktHasRetransmittableData
          IN T # None =>
               /\ ~b.needsToSendAckImmediately => hist'.rxSinceAck[s] < T
               /\ recv /\ hist'.pktHasCryptoData => b.needsToSendAckImmediately
               /\ recv /\ hist'.pktOutOfOrder /\ ~a.ignoreReorder
                    => b.needsToSendAckImmediately
               /\ recv /\ hist'.pktOutOfOrder /\ a.ignoreReorder
                       /\ ~hist'.pktHasCryptoData
                       /\ ~a.needsToSendAckImmediately
                       /\ a.numRxPacketsRecvd + a.numNonRxPacketsRecvd + 1 < T
                    => ~b.needsToSendAckImmediately ]_vars

(* the T-th retransmittable packet since the last ACK set the latch by     *)
(* count alone: in order, no crypto data, tolerance 2                      *)
C10_Witness ==
    /\ hist.op = "recv"
    /\ hist.pktHasRetransmittableData
    /\ ~hist.pktHasCryptoData
    /\ ~hist.pktOutOfOrder
    /\ conn.ackStates[hist.space].tolerance = 2
    /\ hist.rxSinceAck[hist.space] = 2
    /\ conn.ackStates[hist.space].needsToSendAckImmediately


(* C11: when the ack timeout fires after a space received a                *)
(* retransmittable packet that is not yet covered by a latch or a sent     *)
(* ACK, the latch of that space is set and its counters are zero.          *)
C11_TimeoutLatchesOwnSpace ==
    [][ hist'.op = "ackTimeout" =>
          \A s \in PacketNumberSpaces :
              /\ hist.rxSinceAck[s] > 0
              /\ ~conn.ackStates[s].needsToSendAckImmediately
              => /\ conn'.ackStates[s].needsToSendAckImmediately
                 /\ conn'.ackStates[s].numRxPacketsRecvd = 0
                 /\ conn'.ackStates[s].numNonRxPacketsRecvd = 0 ]_vars


---------------------------------------------------------------------------
(* SpecMigration: onConnectionMigration called on an established           *)
(* connection as the peer moves between addresses while path challenges    *)
(* are written and answered.  SpecRoundTrip: the first MaxMigrationCalls   *)
(* of those calls, while the clock runs and RTT samples arrive.  A call    *)
(* that raises ends the connection: nothing is called after it.            *)

MigrationAddrs == {A1, A2, A3, A4}
RoundTripAddrs == {A1, A3, A4}
ClockSteps == {kTimeToRetainLastCongestionAndRttState,
               kTimeToRetainLastCongestionAndRttState + 1}
RttSamples == {8, 24}
AckDelays == {0, 4}

NotLeft == [present |-> FALSE]

(* the path to the current peer is validated: no challenge waits to be     *)
(* written and none is outstanding (ServerStateMachine.cpp 507, 536)       *)
pathIsValidated(c) ==
    /\ c.pendingEvents.pathChallenge = None
    /\ c.outstandingPathValidation = None

InitMigration ==
    /\ conn = EstablishedConn
    /\ now = 0
    /\ hist = [op |-> "init", newPeerAddress |-> NoAddr, samples |-> 0,
               ticks |-> 0, left |-> NotLeft, savedFrom |-> {}]

MigrateTo(addrs) ==
    /\ ok(conn)
    /\ \E a \in addrs \ {conn.peerAddress}, pathData \in 1..MaxPathData :
         LET saving == /\ ~tooManyMigrations(conn)
                       /\ pathIsValidated(conn)
                       /\ ~maybeNATRebinding(a, conn.peerAddress)
         IN /\ conn' = onConnectionMigration(begin(conn), a, pathData, now)
            /\ hist' = [hist EXCEPT
                 !.op = "onConnectionMigration",
                 !.newPeerAddress = a,
                 !.left = IF saving
                          THEN moveCurrentCongestionAndRttState(conn, now)
                          ELSE NotLeft,
                 !.savedFrom = IF saving THEN @ \cup {conn.peerAddress} ELSE @]
    /\ UNCHANGED now

Migrate == MigrateTo(MigrationAddrs)

RttSample ==
    /\ ok(conn)
    /\ hist.samples < MaxRttSamples
    /\ \E rttSample \in RttSamples, ackDelay \in AckDelays :
         conn' = updateRtt(conn, rttSample, ackDelay)
    /\ hist' = [hist EXCEPT !.op = "updateRtt", !.samples = @ + 1]
    /\ UNCHANGED now

(* the write path sends the pending PATH_CHALLENGE and arms the timeout    *)
WritePathChallenge ==
    /\ ok(conn)
    /\ conn.pendingEvents.pathChallenge # None
    /\ conn' = [conn EXCEPT
         !.outstandingPathValidation = conn.pendingEvents.pathChallenge,
         !.pathChallengeStartTime = now,
         !.pendingEvents.pathChallenge = None,
         !.pendingEvents.schedulePathValidationTimeout = TRUE]
    /\ hist' = [hist EXCEPT !.op = "writePathChallenge"]
    /\ UNCHANGED now

(* the matching PATH_RESPONSE arrives *)
PathResponse ==
    /\ ok(conn)
    /\ conn.outstandingPathValidation # None
    /\ conn' = updateSimpleFrameOnPacketReceived(
                   conn, [pathData |-> conn.outstandingPathValidation],
                   "PATH_RESPONSE", FALSE, now)
    /\ hist' = [hist EXCEPT !.op = "pathResponse"]
    /\ UNCHANGED now

Tick ==
    /\ ok(conn)
    /\ hist.ticks < MaxTime
    /\ \E d \in ClockSteps : now' = now + d
    /\ hist' = [hist EXCEPT !.op = "tick", !.ticks = @ + 1]
    /\ UNCHANGED conn

NextMigration == Migrate \/ RttSample \/ WritePathChallenge \/ PathResponse

SpecMigration == InitMigration /\ [][NextMigration]_vars

MigrateEarly ==
    /\ conn.migrationState.numMigrations < MaxMigrationCalls
    /\ MigrateTo(RoundTripAddrs)

NextRoundTrip ==
    MigrateEarly \/ RttSample \/ WritePathChallenge \/ PathResponse \/ Tick

SpecRoundTrip == InitMigration /\ [][NextRoundTrip]_vars

(* C3: numMigrations never exceeds kMaxNumMigrationsAllowed.  A call made  *)
(* below the limit counts one migration; the call made at the limit raises *)
(* INVALID_MIGRATION and leaves numMigrations, peerAddress,                *)
(* previousPeerAddresses and the queued PATH_CHALLENGE as they were.       *)
C3_MigrationLimit ==
    [][ /\ conn'.migrationState.numMigrations <= kMaxNumMigrationsAllowed
        /\ hist'.op = "onConnectionMigration" /\ hist' # hist =>
             IF conn.migrationState.numMigrations < kMaxNumMigrationsAllowed
             THEN /\ conn'.err = "NONE"
                  /\ conn'.migrationState.numMigrations =
                         conn.migrationState.numMigrations + 1
             ELSE /\ conn'.err = "INVALID_MIGRATION"
                  /\ conn'.migrationState.numMigrations =
                         conn.migrationState.numMigrations
                  /\ conn'.peerAddress = conn.peerAddress
                  /\ conn'.migrationState.previousPeerAddresses =
                         conn.migrationState.previousPeerAddresses
                  /\ conn'.pendingEvents.pathChallenge =
                         conn.pendingEvents.pathChallenge
      ]_vars

C3_Witness ==
    /\ hist.op = "onConnectionMigration"
    /\ conn.err = "INVALID_MIGRATION"
    /\ conn.migrationState.numMigrations = kMaxNumMigrationsAllowed
    /\ conn.pendingEvents.pathChallenge # None
    /\ conn.migrationState.previousPeerAddresses # <<>>


(* the controller and the four RTT values a connection runs on *)
CongestionAndRtt(c) ==
    [ congestionController |-> c.congestionController,
      srtt |-> c.lossState.srtt,
      lrtt |-> c.lossState.lrtt,
      rttvar |-> c.lossState.rttvar,
      mrtt |-> c.lossState.mrtt ]

(* a controller the connection never had and the RTT values reset *)
FreshCongestionAndRtt(c) ==
    [ congestionController |-> c.controllersMade + 1,
      srtt |-> 0, lrtt |-> 0, rttvar |-> 0, mrtt |-> kDefaultMinRtt ]

(* C4: a migration off a validated path to an address that is not a NAT    *)
(* rebinding saves the controller and srtt, lrtt, rttvar, mrtt of the      *)
(* address left in lastCongestionAndRtt, keyed by that address, and, when  *)
(* nothing was ever saved for the new address, installs a fresh controller *)
(* with srtt = lrtt = rttvar = 0 and mrtt = kDefaultMinRtt.  The next      *)
(* migration, if it goes back to the address left, restores that           *)
(* controller and those four values when no more than                      *)
(* kTimeToRetainLastCongestionAndRttState passed, and otherwise installs a *)
(* fresh controller and the reset values.                                  *)
C4_CongestionRttRoundTrip ==
    [][ hist'.op = "onConnectionMigration" /\ hist' # hist
        /\ conn'.err = "NONE" =>
          /\ hist'.left.present =>
               /\ conn'.migrationState.lastCongestionAndRtt = hist'.left
               /\ hist'.left.peerAddress = conn.peerAddress
               /\ hist'.left.congestionController = conn.congestionController
               /\ hist'.newPeerAddress \notin hist.savedFrom =>
                    CongestionAndRtt(conn') = FreshCongestionAndRtt(conn)
          /\ hist.left.present /\ hist'.newPeerAddress = hist.left.peerAddress =>
               IF now - hist.left.recordTime
                      <= kTimeToRetainLastCongestionAndRttState
               THEN /\ conn'.congestionController = hist.left.congestionController
                    /\ conn'.lossState.srtt = hist.left.srtt
                    /\ conn'.lossState.lrtt = hist.left.lrtt
                    /\ conn'.lossState.rttvar = hist.left.rttvar
                    /\ conn'.lossState.mrtt = hist.left.mrtt
               ELSE CongestionAndRtt(conn') = FreshCongestionAndRtt(conn)
      ]_vars

(* the peer went A1 -> A4 -> A1 in time and A1's measured RTT is back *)
C4_Witness ==
    /\ hist.op = "onConnectionMigration"
    /\ conn.err = "NONE"
    /\ conn.migrationState.numMigrations = 2
    /\ conn.peerAddress = A1
    /\ conn.congestionController = 1
    /\ conn.lossState.srtt > 0
    /\ conn.migrationState.lastCongestionAndRtt.present
    /\ conn.migrationState.lastCongestionAndRtt.peerAddress = A4
    /\ now > 0


---------------------------------------------------------------------------
(* SpecServer: datagrams read by onServerReadData from connection set-up   *)
(* on, from the client's address and from another, and the connection      *)
(* closed at any time by onServerClose.  After a read that raised, the     *)
(* transport closes the connection before anything else is read.           *)
(* SpecBuffering: the same reads on a connection that buffers packets      *)
(* whose cipher is not there yet, and the transport handing the buffered   *)
(* packets back once it is.                                                *)

ServerPeers == {A1, A4}

ProtectionTypes ==
    {"Initial", "Handshake", "ZeroRtt", "KeyPhaseZero", "KeyPhaseOne"}

(* the frame lists a packet of each protection type carries *)
FrameLists(protectionType) ==
    CASE protectionType = "Initial" ->
             { <<>>, <<"CRYPTO">>, <<"ACK">>, <<"PADDING">>, <<"STREAM">>,
               <<"CRYPTO", "STREAM">>, <<"CONNECTION_CLOSE">> }
      [] protectionType = "Handshake" ->
             { <<>>, <<"CRYPTO">>, <<"ACK">>, <<"STREAM">>,
               <<"PADDING", "STREAM">> }
      [] protectionType = "ZeroRtt" -> { <<>>, <<"STREAM">> }
      [] protectionType = "KeyPhaseZero" ->
             { <<>>, <<"STREAM">>, <<"PING">>, <<"ACK">>, <<"PADDING">>,
               <<"CRYPTO">>, <<"CONNECTION_CLOSE">>, <<"DATAGRAM">>,
               <<"PATH_CHALLENGE">>, <<"PATH_RESPONSE", "PADDING">>,
               <<"PATH_CHALLENGE", "PING">>, <<"NEW_CONNECTION_ID">> }
      [] OTHER -> { <<"STREAM">> }

(* what the handshake layer yields on the client's first flight, with and  *)
(* without early data, with acceptable and unacceptable parameters, and on *)
(* the client's Finished                                                   *)
ServerHandshakeOutputs ==
    { NoOutputs,
      [NoOutputs EXCEPT !.handshakeReadCipher = TRUE, !.oneRttWriteCipher = 1,
                        !.clientParams = BaseParams],
      [NoOutputs EXCEPT !.handshakeReadCipher = TRUE, !.oneRttWriteCipher = 1,
                        !.clientParams = BaseParams, !.zeroRttReadCipher = TRUE],
      [NoOutputs EXCEPT !.handshakeReadCipher = TRUE, !.oneRttWriteCipher = 1,
                        !.clientParams =
                            withParams("initial_max_data", 1000000,
                                       "max_ack_delay", kMaxAckDelay + 1)],
      [NoOutputs EXCEPT !.oneRttReadCipher = TRUE, !.isHandshakeDone = TRUE] }

(* the handshake outputs a packet's crypto data leads to *)
HandshakeOutputsOf(protectionType, frames) ==
    IF frames # <<"CRYPTO">> THEN {NoOutputs}
    ELSE CASE protectionType = "Initial" ->
                  {h \in ServerHandshakeOutputs : ~h.isHandshakeDone}
           [] protectionType = "Handshake" ->
                  {h \in ServerHandshakeOutputs :
                       h.isHandshakeDone \/ h = NoOutputs}
           [] OTHER -> {NoOutputs}

(* packet numbers vary where a packet's place in the order decides; the   *)
(* packets of the handshake and early data are numbered 0                  *)
PacketNums(protectionType, frames) ==
    IF protectionType = "KeyPhaseZero"
         /\ frames \in {<<"STREAM">>, <<"PADDING">>, <<"DATAGRAM">>}
    THEN 0..MaxPacketNum
    ELSE {0}

(* what the ACK frame of a packet acknowledges: nothing new, or the 1-RTT  *)
(* packet of the server with the HANDSHAKE_DONE frame and a PING           *)
AcksOf(protectionType, frames) ==
    IF ~Contains(frames, "ACK") \/ protectionType # "KeyPhaseZero" THEN {NoAck}
    ELSE { NoAck,
           [acked |-> {"HANDSHAKE_DONE", "PING"},
            rttSample |-> AckRttSample, ackDelay |-> 0] }

(* the data of a PATH_RESPONSE frame: that of a PATH_CHALLENGE the server  *)
(* can have sent, or other                                                 *)
PathDatasOf(frames) ==
    IF Contains(frames, "PATH_RESPONSE") THEN 1..(MaxPathData + 1) ELSE {None}

DataPackets ==
    UNION { UNION { [ kind : {"DATA"}, protectionType : {protectionType},
                      packetNum : PacketNums(protectionType, frames),
                      frames : {frames},
                      h : HandshakeOutputsOf(protectionType, frames),
                      ack : AcksOf(protectionType, frames),
                      pathData : PathDatasOf(frames) ]
                    : frames \in FrameLists(protectionType) }
            : protectionType \in ProtectionTypes }

OtherPackets ==
    [ kind : {"RETRY", "STATELESS_RESET", "NOTHING", "CIPHER_UNAVAILABLE_EMPTY"},
      protectionType : {"ZeroRtt"}, packetNum : {0}, frames : {<<>>},
      h : {NoOutputs}, ack : {NoAck}, pathData : {None} ]

(* packets that follow another in one datagram *)
CoalescedTails ==
    { pkt \in DataPackets :
        /\ pkt.packetNum = 0
        /\ \/ /\ pkt.protectionType = "Handshake"
              /\ pkt.frames = <<"CRYPTO">>
              /\ pkt.h.isHandshakeDone
           \/ /\ pkt.protectionType \in {"ZeroRtt", "KeyPhaseZero"}
              /\ pkt.frames = <<"STREAM">> }

(* packets that are followed by another in one datagram *)
CoalescedHeads ==
    { pkt \in DataPackets :
        /\ pkt.packetNum = 0
        /\ pkt.frames = <<"CRYPTO">>
        /\ pkt.protectionType \in {"Initial", "Handshake"} }

Coalesced ==
    {<<pkt, tail>> : pkt \in CoalescedHeads, tail \in CoalescedTails}

Invariants == {"OK", "PARSE_ERROR", "VERSION_NEGOTIATION", "INITIAL_CONNID_SMALL"}

(* the address a datagram is expected from: the client's address until the *)
(* first packet is accepted, the connection's peer address after           *)
expectedPeer(c) ==
    IF c.hasReadCodec THEN c.peerAddress ELSE c.originalPeerAddress

(* what a Closed connection is sent: single packets, with and without a    *)
(* close frame, and the packets the codec makes nothing of                 *)
ClosedFrameLists == { <<>>, <<"STREAM">>, <<"CONNECTION_CLOSE">> }

(* the RTT samples of the path: the latest RTT is 0 until an ACK frame     *)
(* yields one                                                              *)
AckSamplesCounted(c) == IF c.lossState.lrtt = 0 THEN 0 ELSE 1

(* the datagrams read in a state.  The long header invariant is looked at  *)
(* only before the codec exists; another address than the expected one     *)
(* sends single packets, and only while the connection migrated less than  *)
(* MaxServerMigrations times; packets that count as not retransmittable    *)
(* come to an Open connection only while the counters are below            *)
(* MaxNonRxPackets; an ACK frame acknowledges a new packet only after the  *)
(* first packet was accepted and while its path has yielded fewer than     *)
(* MaxAckSamples samples, and the HANDSHAKE_DONE frame only once sent.     *)
ReadDatas(c) ==
    { rd \in [ peer : ServerPeers,
               invariant : IF c.hasReadCodec THEN {"OK"} ELSE Invariants,
               pathData : {1},
               packets : {<<>>} \cup {<<pkt>> : pkt \in DataPackets \cup OtherPackets}
                                \cup (IF c.state = "Open" THEN Coalesced ELSE {}) ] :
        /\ rd.peer # expectedPeer(c) =>
               /\ c.hasReadCodec
               /\ Len(rd.packets) = 1
               /\ rd.packets[1].kind = "DATA"
               /\ c.migrationState.numMigrations < MaxServerMigrations
        /\ c.state = "Closed" =>
               \A i \in DOMAIN rd.packets :
                   rd.packets[i].frames \in ClosedFrameLists
        /\ c.state = "Open" =>
               \A i \in DOMAIN rd.packets :
                   \/ hasRetransmittableData(rd.packets[i])
                   \/ NonRxPacketsCounted(c) < MaxNonRxPackets
        /\ \A i \in DOMAIN rd.packets :
               /\ rd.packets[i].ack # NoAck =>
                      c.hasReadCodec /\ AckSamplesCounted(c) < MaxAckSamples
               /\ "HANDSHAKE_DONE" \in rd.packets[i].ack.acked => c.sentHandshakeDone }

(* the datagrams read where buffering is looked at: from the client's      *)
(* address, the handshake's packets and packets with stream data           *)
BufferingReadDatas(c) ==
    { rd \in [ peer : {A1}, invariant : {"OK"}, pathData : {1},
               packets : {<<pkt>> : pkt \in DataPackets \cup OtherPackets}
                             \cup Coalesced ] :
        \A i \in DOMAIN rd.packets :
            /\ rd.packets[i].packetNum = 0
            /\ rd.packets[i].kind = "DATA" =>
                   rd.packets[i].frames \in {<<"CRYPTO">>, <<"STREAM">>}
            /\ rd.packets[i].kind \in {"DATA", "CIPHER_UNAVAILABLE_EMPTY"} }

(* what the codec makes of the first packet of a datagram *)
firstPacketType(c, readData) ==
    IF readData.packets = <<>> THEN "NOTHING"
    ELSE IF c.state = "Open" /\ ~c.hasReadCodec
         THEN IF readData.invariant # "OK" THEN "NOTHING"
              ELSE parsePacket(acceptFirstPacket(c, readData), readData.packets[1])
    ELSE IF ~c.hasReadCodec THEN "NOTHING"
    ELSE parsePacket(c, readData.packets[1])

NoPacket ==
    [type |-> "NOTHING", protectionType |-> "Initial", packetNum |-> 0,
     frames |-> <<>>]

InitServer ==
    /\ \E disableMigration \in BOOLEAN :
         conn = [InitConn EXCEPT
                   !.transportSettings.disableMigration = disableMigration,
                   !.transportSettings.rxPacketsBeforeAckBeforeInit = 1,
                   !.transportSettings.rxPacketsBeforeAckAfterInit = 1]
    /\ now = 0
    /\ hist = [op |-> "init", state |-> "Open"]

InitBuffering ==
    /\ conn = [InitConn EXCEPT
                 !.transportSettings.maxPacketsToBuffer = MaxPacketsToBuffer,
                 !.transportSettings.rxPacketsBeforeAckBeforeInit = 1,
                 !.transportSettings.rxPacketsBeforeAckAfterInit = 1]
    /\ now = 0
    /\ hist = [op |-> "init", state |-> "Open"]

(* onServerReadData on one of the datagrams of S; a datagram that would    *)
(* make the handshake layer report done without a 1-RTT write cipher is    *)
(* none the connection reads                                               *)
ReadDataFrom(S) ==
    /\ ok(conn) \/ conn.state = "Closed"
    /\ \E readData \in S :
         LET c == onServerReadData(begin(conn), readData, now) IN
         /\ c.err # "CHECK_FAILED"
         /\ conn' = c
         /\ hist' = [op |-> "onServerReadData", state |-> conn.state,
                     peer |-> readData.peer,
                     buffered |-> Len(conn.pendingZeroRttData.packets)
                                    + Len(conn.pendingOneRttData.packets),
                     first |-> IF readData.packets = <<>> THEN NoPacket
                               ELSE [type |-> firstPacketType(conn, readData),
                                     protectionType |->
                                         readData.packets[1].protectionType,
                                     packetNum |-> readData.packets[1].packetNum,
                                     frames |-> readData.packets[1].frames]]
    /\ UNCHANGED now

ReadData == ReadDataFrom(ReadDatas(conn))

ReadDataBuffering == ReadDataFrom(BufferingReadDatas(conn))

Close ==
    /\ conn' = onServerClose(conn)
    /\ hist' = [op |-> "onServerClose", state |-> conn.state]
    /\ UNCHANGED now

(* the transport, once a 1-RTT or 0-RTT read cipher is there, takes the    *)
(* buffered packets and gives the buffers up                               *)
ProcessPendingData ==
    /\ ok(conn) /\ conn.state = "Open"
    /\ \/ /\ conn.readCodec.oneRttReadCipher
          /\ conn.pendingZeroRttData.present \/ conn.pendingOneRttData.present
          /\ conn' = [conn EXCEPT
                        !.pendingZeroRttData = [present |-> FALSE, packets |-> <<>>],
                        !.pendingOneRttData = [present |-> FALSE, packets |-> <<>>]]
       \/ /\ ~conn.readCodec.oneRttReadCipher
          /\ conn.readCodec.zeroRttReadCipher
          /\ conn.pendingZeroRttData.present
          /\ conn' = [conn EXCEPT
                        !.pendingZeroRttData = [present |-> FALSE, packets |-> <<>>]]
    /\ hist' = [op |-> "processPendingData", state |-> conn.state]
    /\ UNCHANGED now

(* the write path sends the PATH_CHALLENGE of an Open connection *)
WriteServerPathChallenge ==
    /\ conn.state = "Open"
    /\ WritePathChallenge

NextServer == ReadData \/ Close \/ WriteServerPathChallenge

SpecServer == InitServer /\ [][NextServer]_vars

NextBuffering == ReadDataBuffering \/ ProcessPendingData

SpecBuffering == InitBuffering /\ [][NextBuffering]_vars

---------------------------------------------------------------------------
(* Claims about the datagrams the server reads. *)

IsRead == hist'.op = "onServerReadData"

IsAppData(protectionType) == protectionType \in {"KeyPhaseZero", "KeyPhaseOne"}

IsUnprotected(protectionType) == protectionType \in {"Initial", "Handshake"}

HasForbiddenFrame(frames) ==
    \E i \in DOMAIN frames :
        frames[i] \notin {"PADDING", "ACK", "CONNECTION_CLOSE", "CRYPTO", "PING"}

(* a regular packet, first of its datagram, read in Open from another      *)
(* address than the peer's, below AppData or with migration disabled       *)
ReadsRefusedSource ==
    /\ IsRead
    /\ conn.state = "Open"
    /\ conn.hasReadCodec
    /\ hist'.first.type = "REGULAR_PACKET"
    /\ hist'.peer # conn.peerAddress
    /\ \/ ~IsAppData(hist'.first.protectionType)
       \/ conn.transportSettings.disableMigration

(* the packet is turned down before its source is looked at *)
FailsFrameChecks ==
    \/ hist'.first.frames = <<>>
    \/ /\ IsUnprotected(hist'.first.protectionType)
       /\ HasForbiddenFrame(hist'.first.frames)

PeerAddressChangesOnlyAtAppData ==
    conn.hasReadCodec /\ conn'.peerAddress # conn.peerAddress =>
        /\ IsRead
        /\ conn.state = "Open"
        /\ hist'.first.type = "REGULAR_PACKET"
        /\ IsAppData(hist'.first.protectionType)
        /\ ~conn.transportSettings.disableMigration
        /\ conn'.peerAddress = hist'.peer

(* C2 as stated: after the first packet, peerAddress changes only while an *)
(* AppData-level packet is processed with migration enabled, and every     *)
(* regular packet from another source that is below AppData, or comes with *)
(* migration disabled, raises INVALID_MIGRATION and leaves peerAddress     *)
(* unchanged.                                                              *)
C2_AnyRefusedPacketIsInvalidMigration ==
    [][ /\ PeerAddressChangesOnlyAtAppData
        /\ ReadsRefusedSource =>
               /\ conn'.err = "INVALID_MIGRATION"
               /\ conn'.peerAddress = conn.peerAddress ]_vars

(* C2, amended: after the first packet, peerAddress changes only while an  *)
(* AppData-level packet is processed with migration enabled; a regular     *)
(* packet from another source that is below AppData, or comes with         *)
(* migration disabled, leaves peerAddress unchanged and raises             *)
(* INVALID_MIGRATION, unless it has no frames or is unprotected with a     *)
(* frame that is not allowed, which raises PROTOCOL_VIOLATION first.       *)
C2_PeerAddressChange ==
    [][ /\ PeerAddressChangesOnlyAtAppData
        /\ ReadsRefusedSource =>
               /\ conn'.peerAddress = conn.peerAddress
               /\ conn'.err = IF FailsFrameChecks THEN "PROTOCOL_VIOLATION"
                              ELSE "INVALID_MIGRATION" ]_vars

(* a packet with stream data came from another address with migration      *)
(* disabled and was refused; the peer address is still the client's        *)
C2_Witness ==
    /\ hist.op = "onServerReadData"
    /\ hist.state = "Open"
    /\ hist.first.type = "REGULAR_PACKET"
    /\ hist.first.protectionType = "KeyPhaseZero"
    /\ hist.first.frames = <<"STREAM">>
    /\ conn.transportSettings.disableMigration
    /\ hist.peer = A4
    /\ conn.peerAddress = A1
    /\ conn.err = "INVALID_MIGRATION"

(* C5: the connection starts Open; once Closed it stays Closed whatever is *)
(* read or closed, and onServerClose on a Closed connection changes        *)
(* nothing.                                                                *)
C5_OpenToClosedOneWay ==
    /\ conn.state = "Open"
    /\ [][conn.state = "Closed" => conn'.state = "Closed"]_vars
    /\ [][hist'.op = "onServerClose" /\ conn.state = "Closed" =>
              conn' = conn]_vars

(* onServerClose was called on a connection that had read its first packet *)
(* and was Closed already                                                  *)
C5_Witness ==
    /\ hist.op = "onServerClose"
    /\ hist.state = "Closed"
    /\ conn.state = "Closed"
    /\ conn.hasReadCodec

(* C6: a regular Initial or Handshake packet with a frame other than       *)
(* PADDING, ACK, CONNECTION_CLOSE, CRYPTO and PING raises                  *)
(* PROTOCOL_VIOLATION and leaves the ack states, the streams, the crypto   *)
(* streams and the peer address as they were when the packet was taken up; *)
(* a regular packet without frames raises PROTOCOL_VIOLATION.              *)
C6_UnprotectedFrames ==
    [][ IsRead /\ conn.state = "Open" /\ hist'.first.type = "REGULAR_PACKET" =>
          /\ IsUnprotected(hist'.first.protectionType)
               /\ HasForbiddenFrame(hist'.first.frames) =>
                 /\ conn'.err = "PROTOCOL_VIOLATION"
                 /\ conn'.ackStates = conn.ackStates
                 /\ conn'.streams = conn.streams
                 /\ conn'.cryptoState = conn.cryptoState
                 /\ conn'.peerAddress = expectedPeer(conn)
          /\ hist'.first.frames = <<>> =>
                 conn'.err = "PROTOCOL_VIOLATION" ]_vars

(* a Handshake packet that carries stream data behind padding was turned   *)
(* down                                                                    *)
C6_Witness ==
    /\ hist.op = "onServerReadData"
    /\ hist.state = "Open"
    /\ hist.first.type = "REGULAR_PACKET"
    /\ hist.first.protectionType = "Handshake"
    /\ hist.first.frames = <<"PADDING", "STREAM">>
    /\ conn.err = "PROTOCOL_VIOLATION"
    /\ conn.streams = {}

NumBuffered(c) ==
    Len(c.pendingZeroRttData.packets) + Len(c.pendingOneRttData.packets)

(* C7: the two buffers together never hold more than maxPacketsToBuffer    *)
(* packets, the 0-RTT buffer holds ZeroRtt packets only and the 1-RTT      *)
(* buffer KeyPhaseZero packets only, and a datagram read when the budget   *)
(* is used up leaves both buffers as they are.                             *)
C7_PendingDataWithinBudget ==
    /\ [](/\ NumBuffered(conn) <= conn.transportSettings.maxPacketsToBuffer
          /\ \A i \in DOMAIN conn.pendingZeroRttData.packets :
                 conn.pendingZeroRttData.packets[i].protectionType = "ZeroRtt"
          /\ \A i \in DOMAIN conn.pendingOneRttData.packets :
                 conn.pendingOneRttData.packets[i].protectionType = "KeyPhaseZero")
    /\ [][ /\ IsRead
           /\ NumBuffered(conn) >= conn.transportSettings.maxPacketsToBuffer
           => /\ conn'.pendingZeroRttData = conn.pendingZeroRttData
              /\ conn'.pendingOneRttData = conn.pendingOneRttData ]_vars

(* a KeyPhaseZero packet without its cipher came when both buffers held    *)
(* packets and the budget was used up                                      *)
C7_Witness ==
    /\ hist.op = "onServerReadData"
    /\ hist.first.type = "CIPHER_UNAVAILABLE"
    /\ hist.first.protectionType = "KeyPhaseZero"
    /\ hist.buffered = conn.transportSettings.maxPacketsToBuffer
    /\ hist.buffered > 0
    /\ conn.pendingZeroRttData.packets # <<>>
    /\ conn.pendingOneRttData.packets # <<>>
    /\ NumBuffered(conn) = hist.buffered

---------------------------------------------------------------------------
(* QuicStreamManager.  The manager is a record threaded like the           *)
(* connection: streams is the stream map (id to state record), the four    *)
(* open-stream sets, the cursors and limits are the fields of the class    *)
(* without the trailing underscore.  setAppIdleCalls lists the values the  *)
(* congestion controller's setAppIdle was called with in the operation,    *)
(* onStreamPrioritiesChangeCalls counts the observer's notifications in    *)
(* the operation, ret is what the operation returned.                      *)

kDefaultMaxPriority == 7

kDefaultPriority == [level |-> 3, incremental |-> TRUE]

(* QuicStreamUtilities: the two low bits of a stream id *)
isClientStream(id) == id % 2 = 0

isServerStream(id) == id % 2 = 1

isUnidirectionalStream(id) == (id \div 2) % 2 = 1

isRemoteStream(nodeType, id) ==
    \/ nodeType = "Client" /\ isServerStream(id)
    \/ nodeType = "Server" /\ isClientStream(id)

isLocalStream(nodeType, id) ==
    \/ nodeType = "Client" /\ isClientStream(id)
    \/ nodeType = "Server" /\ isServerStream(id)

NoRet == [stream |-> None, error |-> "NO_ERROR", value |-> None, flag |-> FALSE]

returnStream(c, id) ==
    IF ~ok(c) THEN c ELSE [c EXCEPT !.ret = [NoRet EXCEPT !.stream = id]]

returnNull(c) ==
    IF ~ok(c) THEN c ELSE [c EXCEPT !.ret = NoRet]

returnError(c, code) ==
    IF ~ok(c) THEN c ELSE [c EXCEPT !.ret = [NoRet EXCEPT !.error = code]]

returnFlag(c, b) ==
    IF ~ok(c) THEN c ELSE [c EXCEPT !.ret = [NoRet EXCEPT !.flag = b]]

returnValue(c, v) ==
    IF ~ok(c) THEN c ELSE [c EXCEPT !.ret = [NoRet EXCEPT !.value = v]]

(* QuicStreamState as constructed for a new stream *)
NewStreamState == [isControl |-> FALSE, priority |-> kDefaultPriority]

(* the indices that refer to streams by id *)
StreamIndices ==
    { "readableStreams", "peekableStreams", "writableStreams",
      "writableDSRStreams", "writableControlStreams", "lossStreams",
      "blockedStreams", "deliverableStreams", "txStreams", "windowUpdates",
      "stopSendingStreams", "flowControlUpdated" }

(* QuicStreamManager's constructor for a node of the given type, followed  *)
(* by refreshTransportSettings                                             *)
InitStreamManager(nodeType, maxStreamsBidi, maxStreamsUni) ==
    LET server == nodeType = "Server" IN
    [ err |-> "NONE",
      errMessage |-> "",
      ret |-> NoRet,
      nodeType |-> nodeType,
      streams |-> << >>,
      openBidirectionalLocalStreams |-> {},
      openUnidirectionalLocalStreams |-> {},
      openBidirectionalPeerStreams |-> {},
      openUnidirectionalPeerStreams |-> {},
      newPeerStreams |-> << >>,
      nextAcceptablePeerBidirectionalStreamId |-> IF server THEN 0 ELSE 1,
      nextAcceptablePeerUnidirectionalStreamId |-> IF server THEN 2 ELSE 3,
      nextAcceptableLocalBidirectionalStreamId |-> IF server THEN 1 ELSE 0,
      nextAcceptableLocalUnidirectionalStreamId |-> IF server THEN 3 ELSE 2,
      nextBidirectionalStreamId |-> IF server THEN 1 ELSE 0,
      nextUnidirectionalStreamId |-> IF server THEN 3 ELSE 2,
      initialLocalBidirectionalStreamId |-> IF server THEN 1 ELSE 0,
      initialLocalUnidirectionalStreamId |-> IF server THEN 3 ELSE 2,
      initialRemoteBidirectionalStreamId |-> IF server THEN 0 ELSE 1,
      initialRemoteUnidirectionalStreamId |-> IF server THEN 2 ELSE 3,
      maxLocalBidirectionalStreamId |-> 0,
      maxLocalUnidirectionalStreamId |-> 0,
      maxLocalBidirectionalStreamIdIncreased |-> FALSE,
      maxLocalUnidirectionalStreamIdIncreased |-> FALSE,
      maxRemoteBidirectionalStreamId |->
          maxStreamsBidi * kStreamIncrement + (IF server THEN 0 ELSE 1),
      maxRemoteUnidirectionalStreamId |->
          maxStreamsUni * kStreamIncrement + (IF server THEN 2 ELSE 3),
      remoteBidirectionalStreamLimitUpdate |-> None,
      remoteUnidirectionalStreamLimitUpdate |-> None,
      streamLimitWindowingFraction |-> 2,
      transportSettings |-> [advertisedInitialMaxStreamsBidi |-> maxStreamsBidi,
                             advertisedInitialMaxStreamsUni |-> maxStreamsUni],
      numControlStreams |-> 0,
      isAppIdle |-> FALSE,
      streamPriorityLevels |-> << >>,
      index |-> [i \in StreamIndices |-> {}],
      queuePriority |-> [writableStreams |-> << >>,
                         writableDSRStreams |-> << >>],
      priorityChangesObserver |-> FALSE,
      setAppIdleCalls |-> << >>,
      onStreamPrioritiesChangeCalls |-> 0 ]

(* a map without the key k *)
Erase(map, k) == [i \in DOMAIN map \ {k} |-> map[i]]

(* QuicStreamManager.cpp 58-62 *)
isStreamUnopened(streamId, nextAcceptableStreamId) ==
    streamId >= nextAcceptableStreamId

(* QuicStreamManager.cpp 607-610 *)
setPriorityChangesObserver(c) == [c EXCEPT !.priorityChangesObserver = TRUE]

(* QuicStreamManager.cpp 612-617 *)
resetPriorityChangesObserver(c) ==
    IF ~c.priorityChangesObserver THEN c
    ELSE [c EXCEPT !.priorityChangesObserver = FALSE]

(* QuicStreamManager.cpp 623-627 *)
notifyStreamPriorityChanges(c) ==
    IF c.priorityChangesObserver
    THEN [c EXCEPT !.onStreamPrioritiesChangeCalls = @ + 1]
    ELSE c

(* a stream record made without its priority-map entry *)
addToStreamPriorityMapSkipping(c, id) == c

(* QuicStreamManager.cpp 629-647; the stream is in streams already *)
addToStreamPriorityMap(c, id) ==
    IF ~ok(c) THEN c
    ELSE IF id \in DOMAIN c.streamPriorityLevels
         THEN throwMessage(c, "STREAM_STATE_ERROR",
                           "Attempted to add stream already in priority map")
         ELSE notifyStreamPriorityChanges(
                  [c EXCEPT !.streamPriorityLevels =
                                (id :> c.streams[id].priority.level) @@ @])

(* QuicStreamManager.h: hasNonCtrlStreams *)
hasNonCtrlStreams(c) == Cardinality(DOMAIN c.streams) # c.numControlStreams

(* a manager that tells the congestion controller on every call *)
updateAppIdleStateAlwaysNotifying(c) ==
    IF ~ok(c) THEN c
    ELSE [c EXCEPT !.isAppIdle = ~hasNonCtrlStreams(c),
                   !.setAppIdleCalls = Append(@, ~hasNonCtrlStreams(c))]

(* QuicStreamManager.cpp 566-579 *)
updateAppIdleState(c) ==
    IF ~ok(c) THEN c
    ELSE LET currentNonCtrlStreams == hasNonCtrlStreams(c) IN
         IF c.isAppIdle /\ ~currentNonCtrlStreams THEN c
         ELSE IF ~c.isAppIdle /\ currentNonCtrlStreams THEN c
         ELSE [c EXCEPT !.isAppIdle = ~currentNonCtrlStreams,
                        !.setAppIdleCalls = Append(@, ~currentNonCtrlStreams)]

(* QuicStreamManager.cpp 581-587; the stream is referred to by its id *)
setStreamAsControl(c, id) ==
    updateAppIdleState(
        IF ~c.streams[id].isControl
        THEN [c EXCEPT !.streams[id].isControl = TRUE,
                       !.numControlStreams = @ + 1]
        ELSE c)

(* streams_.emplace of a new state record *)
emplaceStream(c, id) == [c EXCEPT !.streams = (id :> NewStreamState) @@ @]

(* the ids start, start + kStreamIncrement, ... up to streamId, ascending  *)
RECURSIVE StreamIdsUpTo(_, _)
StreamIdsUpTo(start, streamId) ==
    IF start > streamId THEN << >>
    ELSE <<start>> \o StreamIdsUpTo(start + kStreamIncrement, streamId)

SeqToSet(seq) == {seq[i] : i \in DOMAIN seq}

(* the limit tested one past the requested id *)
openPeerStreamPastLimit(streamId, openStreams, nextAcceptableStreamId, maxStreamId, newStreams) ==
    IF streamId < nextAcceptableStreamId
    THEN [code |-> "CREATING_EXISTING_STREAM", openStreams |-> openStreams,
          nextAcceptableStreamId |-> nextAcceptableStreamId,
          newStreams |-> newStreams]
    ELSE IF streamId > maxStreamId
    THEN [code |-> "STREAM_LIMIT_EXCEEDED", openStreams |-> openStreams,
          nextAcceptableStreamId |-> nextAcceptableStreamId,
          newStreams |-> newStreams]
    ELSE LET opened == StreamIdsUpTo(nextAcceptableStreamId, streamId) IN
         [code |-> "NO_ERROR",
          openStreams |-> openStreams \cup SeqToSet(opened),
          nextAcceptableStreamId |-> streamId + kStreamIncrement,
          newStreams |-> newStreams \o opened]

(* only the requested id is opened, the ids below it are skipped *)
openPeerStreamSkippingLower(streamId, openStreams, nextAcceptableStreamId, maxStreamId, newStreams) ==
    IF streamId < nextAcceptableStreamId
    THEN [code |-> "CREATING_EXISTING_STREAM", openStreams |-> openStreams,
          nextAcceptableStreamId |-> nextAcceptableStreamId,
          newStreams |-> newStreams]
    ELSE IF streamId >= maxStreamId
    THEN [code |-> "STREAM_LIMIT_EXCEEDED", openStreams |-> openStreams,
          nextAcceptableStreamId |-> nextAcceptableStreamId,
          newStreams |-> newStreams]
    ELSE [code |-> "NO_ERROR",
          openStreams |-> openStreams \cup {streamId},
          nextAcceptableStreamId |-> streamId + kStreamIncrement,
          newStreams |-> Append(newStreams, streamId)]

(* the streams opened while the cursor stays where it was *)
openPeerStreamKeepingCursor(streamId, openStreams, nextAcceptableStreamId, maxStreamId, newStreams) ==
    IF streamId < nextAcceptableStreamId
    THEN [code |-> "CREATING_EXISTING_STREAM", openStreams |-> openStreams,
          nextAcceptableStreamId |-> nextAcceptableStreamId,
          newStreams |-> newStreams]
    ELSE IF streamId >= maxStreamId
    THEN [code |-> "STREAM_LIMIT_EXCEEDED", openStreams |-> openStreams,
          nextAcceptableStreamId |-> nextAcceptableStreamId,
          newStreams |-> newStreams]
    ELSE LET opened == StreamIdsUpTo(nextAcceptableStreamId, streamId) IN
         [code |-> "NO_ERROR",
          openStreams |-> openStreams \cup SeqToSet(opened),
          nextAcceptableStreamId |-> nextAcceptableStreamId,
          newStreams |-> newStreams \o opened]

(* QuicStreamManager.cpp 66-93 *)
openPeerStreamIfNotClosed(streamId, openStreams, nextAcceptableStreamId, maxStreamId, newStreams) ==
    IF streamId < nextAcceptableStreamId
    THEN [code |-> "CREATING_EXISTING_STREAM", openStreams |-> openStreams,
          nextAcceptableStreamId |-> nextAcceptableStreamId,
          newStreams |-> newStreams]
    ELSE IF streamId >= maxStreamId
    THEN [code |-> "STREAM_LIMIT_EXCEEDED", openStreams |-> openStreams,
          nextAcceptableStreamId |-> nextAcceptableStreamId,
          newStreams |-> newStreams]
    ELSE LET opened == StreamIdsUpTo(nextAcceptableStreamId, streamId) IN
         [code |-> "NO_ERROR",
          openStreams |-> openStreams \cup SeqToSet(opened),
          nextAcceptableStreamId |-> streamId + kStreamIncrement,
          newStreams |-> newStreams \o opened]

(* the limit tested one past the requested id *)
openLocalStreamPastLimit(streamId, openStreams, nextAcceptableStreamId, maxStreamId) ==
    IF streamId < nextAcceptableStreamId
    THEN [code |-> "CREATING_EXISTING_STREAM", openStreams |-> openStreams,
          nextAcceptableStreamId |-> nextAcceptableStreamId]
    ELSE IF streamId > maxStreamId
    THEN [code |-> "STREAM_LIMIT_EXCEEDED", openStreams |-> openStreams,
          nextAcceptableStreamId |-> nextAcceptableStreamId]
    ELSE [code |-> "NO_ERROR",
          openStreams |-> openStreams
              \cup SeqToSet(StreamIdsUpTo(nextAcceptableStreamId, streamId)),
          nextAcceptableStreamId |-> streamId + kStreamIncrement]

(* QuicStreamManager.cpp 95-119 *)
openLocalStreamIfNotClosed(streamId, openStreams, nextAcceptableStreamId, maxStreamId) ==
    IF streamId < nextAcceptableStreamId
    THEN [code |-> "CREATING_EXISTING_STREAM", openStreams |-> openStreams,
          nextAcceptableStreamId |-> nextAcceptableStreamId]
    ELSE IF streamId >= maxStreamId
    THEN [code |-> "STREAM_LIMIT_EXCEEDED", openStreams |-> openStreams,
          nextAcceptableStreamId |-> nextAcceptableStreamId]
    ELSE [code |-> "NO_ERROR",
          openStreams |-> openStreams
              \cup SeqToSet(StreamIdsUpTo(nextAcceptableStreamId, streamId)),
          nextAcceptableStreamId |-> streamId + kStreamIncrement]

(* the fields of the manager that belong to a stream id's kind *)
peerFields(streamId) ==
    IF isUnidirectionalStream(streamId)
    THEN [open |-> "openUnidirectionalPeerStreams",
          next |-> "nextAcceptablePeerUnidirectionalStreamId",
          max |-> "maxRemoteUnidirectionalStreamId"]
    ELSE [open |-> "openBidirectionalPeerStreams",
          next |-> "nextAcceptablePeerBidirectionalStreamId",
          max |-> "maxRemoteBidirectionalStreamId"]

localFields(streamId) ==
    IF isUnidirectionalStream(streamId)
    THEN [open |-> "openUnidirectionalLocalStreams",
          next |-> "nextAcceptableLocalUnidirectionalStreamId",
          max |-> "maxLocalUnidirectionalStreamId"]
    ELSE [open |-> "openBidirectionalLocalStreams",
          next |-> "nextAcceptableLocalBidirectionalStreamId",
          max |-> "maxLocalBidirectionalStreamId"]

(* QuicStreamManager.cpp 137-144: the id found, None for nullptr *)
findStream(c, streamId) ==
    IF streamId \in DOMAIN c.streams THEN streamId ELSE None

(* QuicStreamManager.cpp 265-285 *)
getOrCreateOpenedLocalStream(c, streamId) ==
    IF streamId \in c[localFields(streamId).open]
    THEN IF streamId \in DOMAIN c.streams
         THEN throwMessage(c, "STREAM_STATE_ERROR", "Creating an active stream")
         ELSE returnStream(
                  addToStreamPriorityMap(emplaceStream(c, streamId), streamId),
                  streamId)
    ELSE returnNull(c)

(* QuicStreamManager.cpp 332-403 *)
getOrCreatePeerStream(c, streamId) ==
    LET f == peerFields(streamId) IN
    IF c.nodeType = "Client" /\ isClientStream(streamId)
    THEN throwMessage(c, "STREAM_STATE_ERROR",
                      "Attempted getting client peer stream on client")
    ELSE IF c.nodeType = "Server" /\ isServerStream(streamId)
    THEN throwMessage(c, "STREAM_STATE_ERROR",
                      "Attempted getting server peer stream on server")
    ELSE IF ~isClientStream(streamId) /\ ~isServerStream(streamId)
    THEN throwMessage(c, "STREAM_STATE_ERROR", "Invalid stream")
    ELSE IF streamId \in DOMAIN c.streams THEN returnStream(c, streamId)
    ELSE IF streamId \in c[f.open]
    THEN returnStream(
             addToStreamPriorityMap(emplaceStream(c, streamId), streamId),
             streamId)
    ELSE LET opened == openPeerStreamIfNotClosed(
                           streamId, c[f.open], c[f.next], c[f.max],
                           c.newPeerStreams)
             c1 == [c EXCEPT ![f.open] = opened.openStreams,
                             ![f.next] = opened.nextAcceptableStreamId,
                             !.newPeerStreams = opened.newStreams]
         IN IF opened.code = "CREATING_EXISTING_STREAM" THEN returnNull(c1)
            ELSE IF opened.code = "STREAM_LIMIT_EXCEEDED"
            THEN throwMessage(c1, "STREAM_LIMIT_ERROR", "Exceeded stream limit.")
            ELSE returnStream(
                     addToStreamPriorityMap(emplaceStream(c1, streamId), streamId),
                     streamId)

(* QuicStreamManager.cpp 287-312 *)
getStream(c, streamId) ==
    IF isRemoteStream(c.nodeType, streamId)
    THEN updateAppIdleState(getOrCreatePeerStream(c, streamId))
    ELSE IF streamId \in DOMAIN c.streams THEN returnStream(c, streamId)
    ELSE LET c1 == getOrCreateOpenedLocalStream(c, streamId)
             nextAcceptableStreamId == c[localFields(streamId).next]
         IN IF ~ok(c1) THEN c1
            ELSE IF c1.ret.stream = None
                    /\ isStreamUnopened(streamId, nextAcceptableStreamId)
            THEN throwMessage(c1, "STREAM_STATE_ERROR",
                              "Trying to get unopened local stream")
            ELSE updateAppIdleState(c1)

(* QuicStreamManager.cpp 416-441: createStream once the id is validated    *)
createValidatedStream(c, streamId) ==
    LET f == localFields(streamId)
        c1 == getOrCreateOpenedLocalStream(c, streamId)
    IN IF ~ok(c1) \/ c1.ret.stream # None THEN c1
       ELSE LET opened == openLocalStreamIfNotClosed(
                              streamId, c1[f.open], c1[f.next], c1[f.max])
                c2 == [c1 EXCEPT ![f.open] = opened.openStreams,
                                 ![f.next] = opened.nextAcceptableStreamId]
            IN IF opened.code # "NO_ERROR" THEN returnError(c2, opened.code)
               ELSE updateAppIdleState(
                        returnStream(
                            addToStreamPriorityMap(
                                emplaceStream(c2, streamId), streamId),
                            streamId))

(* the id validated on a client only *)
createStreamValidatingClientOnly(c, streamId) ==
    IF c.nodeType = "Client" /\ ~isClientStream(streamId)
    THEN throwMessage(c, "STREAM_STATE_ERROR",
                      "Attempted creating non-client stream on client")
    ELSE createValidatedStream(c, streamId)

(* QuicStreamManager.cpp 405-442 *)
createStream(c, streamId) ==
    IF c.nodeType = "Client" /\ ~isClientStream(streamId)
    THEN throwMessage(c, "STREAM_STATE_ERROR",
                      "Attempted creating non-client stream on client")
    ELSE IF c.nodeType = "Server" /\ ~isServerStream(streamId)
    THEN throwMessage(c, "STREAM_STATE_ERROR",
                      "Attempted creating non-server stream on server")
    ELSE createValidatedStream(c, streamId)

(* QuicStreamManager.cpp 314-321 *)
createNextBidirectionalStream(c) ==
    LET c1 == createStream(c, c.nextBidirectionalStreamId) IN
    IF ok(c1) /\ c1.ret.error = "NO_ERROR"
    THEN [c1 EXCEPT !.nextBidirectionalStreamId = @ + kStreamIncrement]
    ELSE c1

(* QuicStreamManager.cpp 323-330 *)
createNextUnidirectionalStream(c) ==
    LET c1 == createStream(c, c.nextUnidirectionalStreamId) IN
    IF ok(c1) /\ c1.ret.error = "NO_ERROR"
    THEN [c1 EXCEPT !.nextUnidirectionalStreamId = @ + kStreamIncrement]
    ELSE c1

(* QuicStreamManager.cpp 146-176: setMaxLocalBidirectionalStreams and      *)
(* setMaxLocalUnidirectionalStreams on the manager's own fields            *)
setMaxLocalBidirectionalStreams(c, maxStreams, force) ==
    IF maxStreams > kMaxMaxStreams THEN throw(c, "STREAM_LIMIT_ERROR")
    ELSE LET maxStreamId == maxStreams * kStreamIncrement
                                + c.initialLocalBidirectionalStreamId IN
         IF force \/ maxStreamId > c.maxLocalBidirectionalStreamId
         THEN [c EXCEPT !.maxLocalBidirectionalStreamId = maxStreamId,
                        !.maxLocalBidirectionalStreamIdIncreased = TRUE]
         ELSE c

setMaxLocalUnidirectionalStreams(c, maxStreams, force) ==
    IF maxStreams > kMaxMaxStreams THEN throw(c, "STREAM_LIMIT_ERROR")
    ELSE LET maxStreamId == maxStreams * kStreamIncrement
                                + c.initialLocalUnidirectionalStreamId IN
         IF force \/ maxStreamId > c.maxLocalUnidirectionalStreamId
         THEN [c EXCEPT !.maxLocalUnidirectionalStreamId = maxStreamId,
                        !.maxLocalUnidirectionalStreamIdIncreased = TRUE]
         ELSE c

(* the limit set one stream beyond the number asked for *)
setMaxRemoteBidirectionalStreamsOneBeyond(c, maxStreams, force) ==
    IF maxStreams > kMaxMaxStreams THEN throw(c, "STREAM_LIMIT_ERROR")
    ELSE LET maxStreamId == (maxStreams + 1) * kStreamIncrement
                                + c.initialRemoteBidirectionalStreamId IN
         IF force \/ maxStreamId > c.maxRemoteBidirectionalStreamId
         THEN [c EXCEPT !.maxRemoteBidirectionalStreamId = maxStreamId]
         ELSE c

(* QuicStreamManager.cpp 186-198 *)
setMaxRemoteBidirectionalStreamsInternal(c, maxStreams, force) ==
    IF maxStreams > kMaxMaxStreams THEN throw(c, "STREAM_LIMIT_ERROR")
    ELSE LET maxStreamId == maxStreams * kStreamIncrement
                                + c.initialRemoteBidirectionalStreamId IN
         IF force \/ maxStreamId > c.maxRemoteBidirectionalStreamId
         THEN [c EXCEPT !.maxRemoteBidirectionalStreamId = maxStreamId]
         ELSE c

(* QuicStreamManager.cpp 200-212 *)
setMaxRemoteUnidirectionalStreamsInternal(c, maxStreams, force) ==
    IF maxStreams > kMaxMaxStreams THEN throw(c, "STREAM_LIMIT_ERROR")
    ELSE LET maxStreamId == maxStreams * kStreamIncrement
                                + c.initialRemoteUnidirectionalStreamId IN
         IF force \/ maxStreamId > c.maxRemoteUnidirectionalStreamId
         THEN [c EXCEPT !.maxRemoteUnidirectionalStreamId = maxStreamId]
         ELSE c

(* QuicStreamManager.cpp 178-184 *)
setMaxRemoteBidirectionalStreams(c, maxStreams) ==
    setMaxRemoteBidirectionalStreamsInternal(c, maxStreams, FALSE)

setMaxRemoteUnidirectionalStreams(c, maxStreams) ==
    setMaxRemoteUnidirectionalStreamsInternal(c, maxStreams, FALSE)

(* QuicStreamManager.cpp 216-220 *)
consumeMaxLocalBidirectionalStreamIdIncreased(c) ==
    [returnFlag(c, c.maxLocalBidirectionalStreamIdIncreased)
        EXCEPT !.maxLocalBidirectionalStreamIdIncreased = FALSE]

(* QuicStreamManager.cpp 222-226 *)
consumeMaxLocalUnidirectionalStreamIdIncreased(c) ==
    [returnFlag(c, c.maxLocalUnidirectionalStreamIdIncreased)
        EXCEPT !.maxLocalUnidirectionalStreamIdIncreased = FALSE]

(* TransportSettings, the two fields the stream manager reads *)
AdvertisedSettings(maxStreamsBidi, maxStreamsUni) ==
    [advertisedInitialMaxStreamsBidi |-> maxStreamsBidi,
     advertisedInitialMaxStreamsUni |-> maxStreamsUni]

(* QuicStreamManager.cpp 257-264; transportSettings_ points at the         *)
(* settings handed in                                                      *)
refreshTransportSettings(c, settings) ==
    LET c1 == setMaxRemoteBidirectionalStreamsInternal(
                  [c EXCEPT !.transportSettings = settings],
                  settings.advertisedInitialMaxStreamsBidi, TRUE)
    IN IF ~ok(c1) THEN c1
       ELSE setMaxRemoteUnidirectionalStreamsInternal(
                c1, settings.advertisedInitialMaxStreamsUni, TRUE)

(* ServerStateMachine.cpp 459-485: of the settings the ticket overwrites,  *)
(* the stream manager reads the two stream limits (482-484) through        *)
(* transportSettings_; its own limits stay as they are                     *)
updateTransportParamsFromTicket(c, initialMaxStreamsBidi, initialMaxStreamsUni) ==
    [c EXCEPT !.transportSettings.advertisedInitialMaxStreamsBidi =
                  initialMaxStreamsBidi,
              !.transportSettings.advertisedInitialMaxStreamsUni =
                  initialMaxStreamsUni]

(* QuicStreamManager.h: the streams the peer may still open *)
openableRemoteBidirectionalStreams(c) ==
    (c.maxRemoteBidirectionalStreamId
        - c.nextAcceptablePeerBidirectionalStreamId) \div kStreamIncrement

openableRemoteUnidirectionalStreams(c) ==
    (c.maxRemoteUnidirectionalStreamId
        - c.nextAcceptablePeerUnidirectionalStreamId) \div kStreamIncrement

(* QuicStreamManager.h: the pending limit update is handed out once *)
remoteBidirectionalStreamLimitUpdate(c) ==
    [returnValue(c, c.remoteBidirectionalStreamLimitUpdate)
        EXCEPT !.remoteBidirectionalStreamLimitUpdate = None]

remoteUnidirectionalStreamLimitUpdate(c) ==
    [returnValue(c, c.remoteUnidirectionalStreamLimitUpdate)
        EXCEPT !.remoteUnidirectionalStreamLimitUpdate = None]

(* QuicStreamManager.h: setStreamLimitWindowingFraction *)
setStreamLimitWindowingFraction(c, fraction) ==
    IF fraction > 0 THEN [c EXCEPT !.streamLimitWindowingFraction = fraction]
    ELSE c

(* QuicStreamManager.h: the collections filled by queueBlocked,            *)
(* addDeliverable, queueFlowControlUpdated, addLoss, addStopSending, addTx *)
(* and queueWindowUpdate                                                   *)
QueuedIndices ==
    { "blockedStreams", "deliverableStreams", "flowControlUpdated",
      "lossStreams", "stopSendingStreams", "txStreams", "windowUpdates" }

(* QuicStreamManager.h: one of these calls; the id enters the collection,  *)
(* whether a stream of that id exists or not                               *)
addToIndex(c, name, id) == [c EXCEPT !.index[name] = @ \cup {id}]

(* QuicStreamManager.h: clearActionable *)
clearActionable(c) ==
    [c EXCEPT !.index.deliverableStreams = {}, !.index.txStreams = {},
              !.index.readableStreams = {}, !.index.peekableStreams = {},
              !.index.flowControlUpdated = {}]

(* QuicStreamManager.h: addWritable; a control stream goes to the set of   *)
(* writable control streams, any other to the queue, with its priority     *)
addWritable(c, id) ==
    IF c.streams[id].isControl
    THEN [c EXCEPT !.index.writableControlStreams = @ \cup {id}]
    ELSE [c EXCEPT !.index.writableStreams = @ \cup {id},
                   !.queuePriority.writableStreams =
                       (id :> c.streams[id].priority) @@ @]

(* QuicStreamManager.h: removeWritable *)
removeWritable(c, id) ==
    IF c.streams[id].isControl
    THEN [c EXCEPT !.index.writableControlStreams = @ \ {id}]
    ELSE [c EXCEPT !.index.writableStreams = @ \ {id},
                   !.queuePriority.writableStreams = Erase(@, id)]

(* QuicStreamManager.h: addDSRWritable *)
addDSRWritable(c, id) ==
    [c EXCEPT !.index.writableDSRStreams = @ \cup {id},
              !.queuePriority.writableDSRStreams =
                  (id :> c.streams[id].priority) @@ @]

(* QuicStreamManager.h: removeDSRWritable *)
removeDSRWritable(c, id) ==
    [c EXCEPT !.index.writableDSRStreams = @ \ {id},
              !.queuePriority.writableDSRStreams = Erase(@, id)]

(* QuicStreamManager.cpp 523-530; readable stands for                      *)
(* hasReadableData() || streamReadError.  updateHolBlockedTime writes      *)
(* fields of the stream that the model leaves out.                         *)
updateReadableStreams(c, id, readable) ==
    IF readable THEN [c EXCEPT !.index.readableStreams = @ \cup {id}]
    ELSE [c EXCEPT !.index.readableStreams = @ \ {id}]

(* what updateWritableStreams reads of the stream it is given: whether a   *)
(* write error is set, hasWritableData(), the loss buffer, the DSR sender, *)
(* hasWritableBufMeta() and the lost buffer metas                          *)
StreamWriteStates ==
    [ streamWriteError : BOOLEAN, hasWritableData : BOOLEAN,
      lossBufferEmpty : BOOLEAN, dsrSender : BOOLEAN,
      hasWritableBufMeta : BOOLEAN, lossBufMetasEmpty : BOOLEAN ]

(* QuicStreamManager.cpp 532-554; CHECK_FAILED is the abort of the CHECKs  *)
(* of lines 534-535 on a stream with a write error that still has lost     *)
(* data or lost buffer metas                                               *)
updateWritableStreams(c, id, stream) ==
    IF stream.streamWriteError
    THEN IF ~stream.lossBufferEmpty \/ ~stream.lossBufMetasEmpty
         THEN throw(c, "CHECK_FAILED")
         ELSE removeDSRWritable(removeWritable(c, id), id)
    ELSE LET c1 == IF stream.hasWritableData \/ ~stream.lossBufferEmpty
                   THEN addWritable(c, id)
                   ELSE removeWritable(c, id)
         IN IF c.streams[id].isControl THEN c1
            ELSE IF /\ stream.dsrSender
                    /\ (stream.hasWritableBufMeta \/ ~stream.lossBufMetasEmpty)
                 THEN addDSRWritable(c1, id)
                 ELSE removeDSRWritable(c1, id)

(* QuicStreamManager.cpp 556-564; peekable stands for                      *)
(* hasPeekableData() || streamReadError                                    *)
updatePeekableStreams(c, id, peekable) ==
    IF peekable THEN [c EXCEPT !.index.peekableStreams = @ \cup {id}]
    ELSE [c EXCEPT !.index.peekableStreams = @ \ {id}]

(* PriorityQueue::updateIfExist *)
updateIfExist(c, name, id, priority) ==
    IF id \in c.index[name]
    THEN [c EXCEPT !.queuePriority[name][id] = priority]
    ELSE c

(* a change that leaves the priority map as it was *)
setStreamPriorityWithoutMap(c, id, level, incremental) ==
    IF findStream(c, id) = None THEN returnFlag(c, FALSE)
    ELSE LET newPriority == [level |-> level, incremental |-> incremental] IN
         IF c.streams[id].priority = newPriority THEN returnFlag(c, FALSE)
         ELSE returnFlag(
                  updateIfExist(
                      updateIfExist(
                          notifyStreamPriorityChanges(
                              [c EXCEPT !.streams[id].priority = newPriority]),
                          "writableStreams", id, newPriority),
                      "writableDSRStreams", id, newPriority),
                  TRUE)

(* QuicStreamManager.cpp 228-255 *)
setStreamPriority(c, id, level, incremental) ==
    IF findStream(c, id) = None THEN returnFlag(c, FALSE)
    ELSE LET newPriority == [level |-> level, incremental |-> incremental]
             c1 == [c EXCEPT !.streams[id].priority = newPriority]
         IN IF c.streams[id].priority = newPriority THEN returnFlag(c, FALSE)
            ELSE IF id \notin DOMAIN c1.streamPriorityLevels
            THEN throwMessage(c1, "STREAM_STATE_ERROR",
                              "Active stream not in stream priority map")
            ELSE returnFlag(
                     updateIfExist(
                         updateIfExist(
                             notifyStreamPriorityChanges(
                                 [c1 EXCEPT !.streamPriorityLevels[id] =
                                                newPriority.level]),
                             "writableStreams", id, newPriority),
                         "writableDSRStreams", id, newPriority),
                     TRUE)

(* every index but the DSR-writable queue *)
eraseFromIndicesButDSR(c, streamId) ==
    [c EXCEPT !.index = [i \in StreamIndices |->
                            IF i = "writableDSRStreams" THEN c.index[i]
                            ELSE c.index[i] \ {streamId}],
              !.queuePriority.writableStreams = Erase(@, streamId)]

(* QuicStreamManager.cpp 452-463 *)
eraseFromIndices(c, streamId) ==
    [c EXCEPT !.index = [i \in StreamIndices |-> c.index[i] \ {streamId}],
              !.queuePriority.writableStreams = Erase(@, streamId),
              !.queuePriority.writableDSRStreams = Erase(@, streamId)]

(* QuicStreamManager.cpp 492-494; the operands are unsigned, a difference  *)
(* below zero wraps to a number above every window                         *)
streamLimitUpdateDue(streamCredit, streamWindow) ==
    streamCredit < 0 \/ streamCredit >= streamWindow

(* the stream left in its open set *)
keepInOpenStreams(c, streamId) == c

(* QuicStreamManager.cpp 474-478, 507-511 *)
eraseFromOpenStreams(c, streamId) ==
    IF isRemoteStream(c.nodeType, streamId)
    THEN [c EXCEPT ![peerFields(streamId).open] = @ \ {streamId}]
    ELSE [c EXCEPT ![localFields(streamId).open] = @ \ {streamId}]

(* QuicStreamManager.cpp 479-506: the stream limit update after a peer     *)
(* stream is gone; maxStreams + streamCredit is taken modulo 2^64, which   *)
(* for a wrapped credit is the sum of the signed numbers.                  *)
(* openableRemote*Streams() (QuicStreamManager.h) CHECKs that the limit is *)
(* not below the next acceptable id before it subtracts.                   *)
updateRemoteStreamLimit(c, streamId) ==
    LET uni == isUnidirectionalStream(streamId)
        initialStreamLimit ==
            IF uni THEN c.transportSettings.advertisedInitialMaxStreamsUni
            ELSE c.transportSettings.advertisedInitialMaxStreamsBidi
        streamWindow == initialStreamLimit \div c.streamLimitWindowingFraction
        openableRemoteStreams ==
            IF uni THEN openableRemoteUnidirectionalStreams(c)
            ELSE openableRemoteBidirectionalStreams(c)
        streamCredit == initialStreamLimit - openableRemoteStreams
                            - Cardinality(c[peerFields(streamId).open])
    IN IF c[peerFields(streamId).max] < c[peerFields(streamId).next]
       THEN throw(c, "CHECK_FAILED")
       ELSE IF ~streamLimitUpdateDue(streamCredit, streamWindow) THEN c
       ELSE IF uni
       THEN LET maxStreams == (c.maxRemoteUnidirectionalStreamId
                                 - c.initialRemoteUnidirectionalStreamId)
                                    \div kStreamIncrement
                c1 == setMaxRemoteUnidirectionalStreams(c, maxStreams + streamCredit)
            IN IF ~ok(c1) THEN c1
               ELSE [c1 EXCEPT !.remoteUnidirectionalStreamLimitUpdate =
                                   maxStreams + streamCredit]
       ELSE LET maxStreams == (c.maxRemoteBidirectionalStreamId
                                 - c.initialRemoteBidirectionalStreamId)
                                    \div kStreamIncrement
                c1 == setMaxRemoteBidirectionalStreams(c, maxStreams + streamCredit)
            IN IF ~ok(c1) THEN c1
               ELSE [c1 EXCEPT !.remoteBidirectionalStreamLimitUpdate =
                                   maxStreams + streamCredit]

(* QuicStreamManager.cpp 444-512 *)
removeClosedStream(c, streamId) ==
    IF streamId \notin DOMAIN c.streams THEN c
    ELSE LET c1 == eraseFromIndices(c, streamId) IN
         IF streamId \notin DOMAIN c1.streamPriorityLevels
         THEN throwMessage(c1, "STREAM_STATE_ERROR",
                           "Removed stream is not in the priority map")
         ELSE LET c2 == [c1 EXCEPT
                           !.streamPriorityLevels = Erase(@, streamId),
                           !.numControlStreams =
                               IF c.streams[streamId].isControl THEN @ - 1 ELSE @,
                           !.streams = Erase(@, streamId)]
                  c3 == eraseFromOpenStreams(c2, streamId)
                  c4 == IF isRemoteStream(c.nodeType, streamId)
                        THEN updateRemoteStreamLimit(c3, streamId)
                        ELSE c3
              IN IF ~ok(c4) THEN c4
                 ELSE notifyStreamPriorityChanges(updateAppIdleState(c4))

---------------------------------------------------------------------------
(* SpecStreams: createStream, getStream, setStreamAsControl and            *)
(* removeClosedStream called in any order on the stream manager of a       *)
(* server or of a client; the node may open MaxLocalStreams streams of     *)
(* each kind and the peer MaxPeerStreams.  An operation that raised ends the connection.  hist.closed is    *)
(* the set of ids removeClosedStream removed, hist.lastSetAppIdle the      *)
(* value of the last setAppIdle call ("none" before the first).            *)

StreamIds == 0..MaxStreamId

NodeTypes == {"Server", "Client"}

beginStreamOp(c) ==
    [begin(c) EXCEPT !.errMessage = "", !.ret = NoRet,
                     !.setAppIdleCalls = << >>,
                     !.onStreamPrioritiesChangeCalls = 0]

(* the last value the congestion controller was told *)
lastSetAppIdleAfter(c, before) ==
    IF c.setAppIdleCalls = << >> THEN before
    ELSE IF c.setAppIdleCalls[Len(c.setAppIdleCalls)] THEN "true" ELSE "false"

InitStreams ==
    /\ \E nodeType \in NodeTypes :
         conn = setMaxLocalUnidirectionalStreams(
                    setMaxLocalBidirectionalStreams(
                        InitStreamManager(nodeType, MaxPeerStreams, MaxPeerStreams),
                        MaxLocalStreams, FALSE),
                    MaxLocalStreams, FALSE)
    /\ now = 0
    /\ hist = [op |-> "init", id |-> None, closed |-> {},
               lastSetAppIdle |-> "none"]

StreamOp(op, id, c) ==
    /\ conn' = c
    /\ hist' = [op |-> op, id |-> id,
                closed |-> IF op = "removeClosedStream" /\ id \in DOMAIN conn.streams
                           THEN hist.closed \cup {id} ELSE hist.closed,
                lastSetAppIdle |-> lastSetAppIdleAfter(c, hist.lastSetAppIdle)]
    /\ UNCHANGED now

CreateStream ==
    /\ ok(conn)
    /\ \E id \in StreamIds :
         StreamOp("createStream", id, createStream(beginStreamOp(conn), id))

GetStream ==
    /\ ok(conn)
    /\ \E id \in StreamIds :
         StreamOp("getStream", id, getStream(beginStreamOp(conn), id))

SetStreamAsControl ==
    /\ ok(conn)
    /\ \E id \in DOMAIN conn.streams :
         StreamOp("setStreamAsControl", id,
                  setStreamAsControl(beginStreamOp(conn), id))

RemoveClosedStream ==
    /\ ok(conn)
    /\ \E id \in StreamIds :
         StreamOp("removeClosedStream", id,
                  removeClosedStream(beginStreamOp(conn), id))

NextStreams ==
    CreateStream \/ GetStream \/ SetStreamAsControl \/ RemoveClosedStream

SpecStreams == InitStreams /\ [][NextStreams]_vars

OpenStreamSets(c) ==
    << c.openBidirectionalLocalStreams, c.openUnidirectionalLocalStreams,
       c.openBidirectionalPeerStreams, c.openUnidirectionalPeerStreams >>

NextAcceptableCursors(c) ==
    << c.nextAcceptableLocalBidirectionalStreamId,
       c.nextAcceptableLocalUnidirectionalStreamId,
       c.nextAcceptablePeerBidirectionalStreamId,
       c.nextAcceptablePeerUnidirectionalStreamId >>

(* C12: createStream with an id that the node's own role does not initiate *)
(* raises STREAM_STATE_ERROR and leaves the open-stream sets, the stream   *)
(* map and the next-acceptable cursors as they were; getStream with an id  *)
(* the peer initiates adds no stream record whose initiator is the node's  *)
(* own role.                                                               *)
C12_StreamIdParity ==
    [][ /\ hist'.op = "createStream"
             /\ ~isLocalStream(conn.nodeType, hist'.id) =>
               /\ conn'.err = "STREAM_STATE_ERROR"
               /\ OpenStreamSets(conn') = OpenStreamSets(conn)
               /\ conn'.streams = conn.streams
               /\ NextAcceptableCursors(conn') = NextAcceptableCursors(conn)
        /\ hist'.op = "getStream"
             /\ isRemoteStream(conn.nodeType, hist'.id) =>
               \A id \in DOMAIN conn'.streams \ DOMAIN conn.streams :
                   ~isLocalStream(conn.nodeType, id) ]_vars

(* a server that has streams of its own was asked to create a stream with  *)
(* a client-initiated id                                                   *)
C12_Witness ==
    /\ hist.op = "createStream"
    /\ conn.nodeType = "Server"
    /\ hist.id = 4
    /\ conn.err = "STREAM_STATE_ERROR"
    /\ conn.openBidirectionalLocalStreams # {}
    /\ 4 \notin DOMAIN conn.streams

(* C13: getStream with a peer-initiated id that was never opened and is at *)
(* or above the maximum advertised for its direction raises                *)
(* STREAM_LIMIT_ERROR and opens nothing: the open peer sets, the list of   *)
(* new peer streams, the stream map and the next-acceptable cursors stay   *)
(* as they were; and no open peer stream id is at or above the maximum of  *)
(* its direction.                                                          *)
C13_PeerStreamLimit ==
    [][ /\ /\ hist'.op = "getStream"
           /\ isRemoteStream(conn.nodeType, hist'.id)
           /\ isStreamUnopened(hist'.id, conn[peerFields(hist'.id).next])
           /\ hist'.id >= conn[peerFields(hist'.id).max]
           => /\ conn'.err = "STREAM_LIMIT_ERROR"
              /\ OpenStreamSets(conn') = OpenStreamSets(conn)
              /\ conn'.newPeerStreams = conn.newPeerStreams
              /\ conn'.streams = conn.streams
              /\ NextAcceptableCursors(conn') = NextAcceptableCursors(conn)
        /\ \A id \in conn'.openBidirectionalPeerStreams :
               id < conn'.maxRemoteBidirectionalStreamId
        /\ \A id \in conn'.openUnidirectionalPeerStreams :
               id < conn'.maxRemoteUnidirectionalStreamId ]_vars

(* a server whose peer has a stream open was handed the first id past the  *)
(* limit                                                                   *)
C13_Witness ==
    /\ hist.op = "getStream"
    /\ conn.nodeType = "Server"
    /\ hist.id = 4
    /\ conn.maxRemoteBidirectionalStreamId = 4
    /\ conn.err = "STREAM_LIMIT_ERROR"
    /\ conn.openBidirectionalPeerStreams = {0}

OpenStreams(c) ==
    c.openBidirectionalLocalStreams \cup c.openUnidirectionalLocalStreams
        \cup c.openBidirectionalPeerStreams \cup c.openUnidirectionalPeerStreams

(* C14: a stream id that removeClosedStream removed is never reopened:     *)
(* every later getStream with it returns null without raising, no later    *)
(* call, createStream with it included, puts it back in the stream map,    *)
(* and it never re-enters the open-stream sets.                            *)
C14_ClosedNeverReopened ==
    [][ \A id \in hist'.closed :
          /\ hist'.op = "getStream" /\ hist'.id = id /\ id \in hist.closed
               => ok(conn') /\ conn'.ret.stream = None
          /\ id \notin DOMAIN conn'.streams
          /\ id \notin OpenStreams(conn') ]_vars

(* a removed local stream was asked for again with createStream while      *)
(* another stream of its kind is open                                      *)
C14_Witness ==
    /\ hist.op = "createStream"
    /\ hist.id \in hist.closed
    /\ isLocalStream(conn.nodeType, hist.id)
    /\ ok(conn)
    /\ conn.ret.error = "CREATING_EXISTING_STREAM"
    /\ OpenStreams(conn) # {}

(* C19: in every reachable state of the stream manager, the initial state  *)
(* with no streams included, isAppIdle() is true if and only if there is   *)
(* no non-control stream.                                                  *)
C19_AppIdleIffNoNonControlStream ==
    ok(conn) => (conn.isAppIdle <=> ~hasNonCtrlStreams(conn))

(* C20: setAppIdle is called only when the app-idle state changes: an      *)
(* operation calls it at most once and only with a value that differs from *)
(* the value isAppIdle() had before and from the value of the previous     *)
(* call, and an operation that leaves isAppIdle() as it was calls nothing. *)
C20_SetAppIdleOnlyOnChange ==
    [][ /\ Len(conn'.setAppIdleCalls) <= 1
        /\ conn'.isAppIdle = conn.isAppIdle => conn'.setAppIdleCalls = << >>
        /\ conn'.setAppIdleCalls # << >> =>
             /\ conn'.setAppIdleCalls[1] = conn'.isAppIdle
             /\ conn'.isAppIdle # conn.isAppIdle
             /\ hist'.lastSetAppIdle # hist.lastSetAppIdle ]_vars

(* getStream on a control stream while the manager is idle, after the      *)
(* congestion controller was told so, tells it nothing                     *)
C20_Witness ==
    /\ hist.op = "getStream"
    /\ hist.id \in DOMAIN conn.streams
    /\ conn.streams[hist.id].isControl
    /\ conn.isAppIdle
    /\ hist.lastSetAppIdle = "true"
    /\ conn.setAppIdleCalls = << >>

---------------------------------------------------------------------------
(* SpecLocalLimit: the application opens its streams with                  *)
(* createNextBidirectionalStream and createNextUnidirectionalStream while  *)
(* the peer's MAX_STREAMS frames move the local limits and closed streams  *)
(* are removed.  hist.limit is the highest number of streams the peer has  *)
(* allowed per direction, hist.created the number of successful creations, *)
(* hist.last the id the last successful creation returned.                 *)

Directions == {"bidi", "uni"}

LocalLimits == 1..MaxLocalStreams

InitLocalLimit ==
    /\ \E nodeType \in NodeTypes, maxBidi \in LocalLimits, maxUni \in LocalLimits :
         /\ conn = setMaxLocalUnidirectionalStreams(
                       setMaxLocalBidirectionalStreams(
                           InitStreamManager(nodeType, MaxPeerStreams, MaxPeerStreams),
                           maxBidi, TRUE),
                       maxUni, TRUE)
         /\ hist = [op |-> "init", dir |-> "none",
                    limit |-> [bidi |-> maxBidi, uni |-> maxUni],
                    created |-> [bidi |-> 0, uni |-> 0],
                    last |-> [bidi |-> None, uni |-> None]]
    /\ now = 0

CreateNext(dir, c) ==
    /\ conn' = c
    /\ hist' = IF ok(c) /\ c.ret.stream # None
               THEN [hist EXCEPT !.op = "createNext", !.dir = dir,
                                 !.created[dir] = @ + 1,
                                 !.last[dir] = c.ret.stream]
               ELSE [hist EXCEPT !.op = "createNext", !.dir = dir]
    /\ UNCHANGED now

CreateNextBidirectionalStream ==
    /\ ok(conn)
    /\ CreateNext("bidi", createNextBidirectionalStream(beginStreamOp(conn)))

CreateNextUnidirectionalStream ==
    /\ ok(conn)
    /\ CreateNext("uni", createNextUnidirectionalStream(beginStreamOp(conn)))

SetMaxLocal(dir, maxStreams, c) ==
    /\ conn' = c
    /\ hist' = [hist EXCEPT !.op = "setMaxLocal", !.dir = dir,
                            !.limit[dir] = Max(@, maxStreams)]
    /\ UNCHANGED now

SetMaxLocalBidirectionalStreams ==
    /\ ok(conn)
    /\ \E maxStreams \in 1..(MaxLocalStreams + 1) :
         SetMaxLocal("bidi", maxStreams,
                     setMaxLocalBidirectionalStreams(beginStreamOp(conn),
                                                     maxStreams, FALSE))

SetMaxLocalUnidirectionalStreams ==
    /\ ok(conn)
    /\ \E maxStreams \in 1..(MaxLocalStreams + 1) :
         SetMaxLocal("uni", maxStreams,
                     setMaxLocalUnidirectionalStreams(beginStreamOp(conn),
                                                      maxStreams, FALSE))

ConsumeMaxLocalBidirectionalStreamIdIncreased ==
    /\ ok(conn)
    /\ conn' = consumeMaxLocalBidirectionalStreamIdIncreased(beginStreamOp(conn))
    /\ hist' = [hist EXCEPT !.op = "consumeMaxLocalIncreased", !.dir = "bidi"]
    /\ UNCHANGED now

ConsumeMaxLocalUnidirectionalStreamIdIncreased ==
    /\ ok(conn)
    /\ conn' = consumeMaxLocalUnidirectionalStreamIdIncreased(beginStreamOp(conn))
    /\ hist' = [hist EXCEPT !.op = "consumeMaxLocalIncreased", !.dir = "uni"]
    /\ UNCHANGED now

RemoveLocalStream ==
    /\ ok(conn)
    /\ \E id \in DOMAIN conn.streams :
         /\ conn' = removeClosedStream(beginStreamOp(conn), id)
         /\ hist' = [hist EXCEPT !.op = "removeClosedStream", !.dir = "none"]
    /\ UNCHANGED now

NextLocalLimit ==
    \/ CreateNextBidirectionalStream
    \/ CreateNextUnidirectionalStream
    \/ SetMaxLocalBidirectionalStreams
    \/ SetMaxLocalUnidirectionalStreams
    \/ ConsumeMaxLocalBidirectionalStreamIdIncreased
    \/ ConsumeMaxLocalUnidirectionalStreamIdIncreased
    \/ RemoveLocalStream

SpecLocalLimit == InitLocalLimit /\ [][NextLocalLimit]_vars

(* the first id of the node's own streams of a direction *)
FirstLocalId(c, dir) ==
    IF dir = "bidi" THEN c.initialLocalBidirectionalStreamId
    ELSE c.initialLocalUnidirectionalStreamId

NextStreamIdCursors(c) ==
    << c.nextBidirectionalStreamId, c.nextUnidirectionalStreamId >>

(* C15: with a local limit of N streams for a direction the calls of       *)
(* createNextBidirectionalStream / createNextUnidirectionalStream succeed   *)
(* exactly while fewer than N have succeeded, the first returning the      *)
(* direction's first id and each later one the previous id + 4, also after *)
(* setMaxLocal*Streams raised the limit; a call at the limit returns       *)
(* STREAM_LIMIT_EXCEEDED without raising and changes no cursor, open set   *)
(* or stream record.                                                       *)
C15_LocalStreamLimit ==
    [][ hist'.op = "createNext" =>
          LET dir == hist'.dir IN
          IF hist.created[dir] < hist.limit[dir]
          THEN /\ ok(conn')
               /\ hist'.created[dir] = hist.created[dir] + 1
               /\ conn'.ret.stream =
                      IF hist.last[dir] = None THEN FirstLocalId(conn, dir)
                      ELSE hist.last[dir] + kStreamIncrement
          ELSE /\ ok(conn')
               /\ conn'.ret.stream = None
               /\ conn'.ret.error = "STREAM_LIMIT_EXCEEDED"
               /\ NextStreamIdCursors(conn') = NextStreamIdCursors(conn)
               /\ NextAcceptableCursors(conn') = NextAcceptableCursors(conn)
               /\ OpenStreamSets(conn') = OpenStreamSets(conn)
               /\ conn'.streams = conn.streams ]_vars

(* after the limit was raised, the creation one past the highest initial   *)
(* limit returned the id after the last one                                *)
C15_Witness ==
    /\ hist.op = "createNext"
    /\ hist.dir = "bidi"
    /\ hist.created.bidi = MaxLocalStreams + 1
    /\ hist.last.bidi = FirstLocalId(conn, "bidi") + MaxLocalStreams * kStreamIncrement
    /\ conn.ret.stream = hist.last.bidi
    /\ conn.openBidirectionalLocalStreams # {}

---------------------------------------------------------------------------
(* SpecRemoteLimit: the client opens streams with ids of its own, the      *)
(* streams are closed and removed in any order, and the transport collects *)
(* the stream limit updates to send.  The server advertised                *)
(* MaxAdvertisedStreams bidirectional and MaxPeerStreams unidirectional    *)
(* streams; the windowing fraction is the default or the one of the tests. *)
(* The transport settings may be refreshed or overwritten from a ticket,   *)
(* and the remote limits set, at any time.  hist.opened tells that         *)
(* getStream was called, hist.windowed that since the last                 *)
(* refreshTransportSettings on a manager without streams only getStream,   *)
(* removeClosedStream and the readers of the pending updates were called,  *)
(* hist.settingsCalls counts the later calls that set settings or limits.  *)

WindowingFractions == {2, 4}

(* the ids of the advertised bidirectional streams and of one more, and    *)
(* the first unidirectional ids                                            *)
RemoteLimitIds ==
    {id \in 0..(kStreamIncrement * (MaxAdvertisedStreams + 1) - 1) :
        isUnidirectionalStream(id) => id < kStreamIncrement}

(* the settings of the connection, which a later refresh hands in again *)
ConnectionSettings ==
    {AdvertisedSettings(MaxAdvertisedStreams, MaxPeerStreams)}

(* the settings of a ticket issued with one bidirectional stream less *)
TicketSettings ==
    {AdvertisedSettings(MaxAdvertisedStreams - 1, MaxPeerStreams)}

InitRemoteLimit ==
    /\ \E fraction \in WindowingFractions :
         conn = setStreamLimitWindowingFraction(
                    refreshTransportSettings(
                        setMaxLocalUnidirectionalStreams(
                            setMaxLocalBidirectionalStreams(
                                InitStreamManager("Server", MaxPeerStreams,
                                                  MaxPeerStreams),
                                MaxLocalStreams, FALSE),
                            MaxLocalStreams, FALSE),
                        AdvertisedSettings(MaxAdvertisedStreams, MaxPeerStreams)),
                    fraction)
    /\ now = 0
    /\ hist = [op |-> "init", uni |-> FALSE, opened |-> FALSE, windowed |-> TRUE,
               settingsCalls |-> 0]

(* the caller drops the pointer getStream returned *)
keepError(c) == [c EXCEPT !.ret = NoRet]

GetPeerStream ==
    /\ ok(conn)
    /\ \E id \in RemoteLimitIds :
         /\ isRemoteStream(conn.nodeType, id)
         /\ conn' = keepError(getStream(beginStreamOp(conn), id))
         /\ hist' = [hist EXCEPT !.op = "getStream", !.uni = FALSE,
                                 !.opened = TRUE]
    /\ UNCHANGED now

RemovePeerStream ==
    /\ ok(conn)
    /\ \E id \in DOMAIN conn.streams :
         /\ conn' = removeClosedStream(beginStreamOp(conn), id)
         /\ hist' = [hist EXCEPT !.op = "removeClosedStream",
                                 !.uni = isUnidirectionalStream(id)]
    /\ UNCHANGED now

RemoteBidirectionalStreamLimitUpdate ==
    /\ ok(conn)
    /\ conn' = remoteBidirectionalStreamLimitUpdate(beginStreamOp(conn))
    /\ hist' = [hist EXCEPT !.op = "remoteBidirectionalStreamLimitUpdate",
                            !.uni = FALSE]
    /\ UNCHANGED now

RemoteUnidirectionalStreamLimitUpdate ==
    /\ ok(conn)
    /\ conn' = remoteUnidirectionalStreamLimitUpdate(beginStreamOp(conn))
    /\ hist' = [hist EXCEPT !.op = "remoteUnidirectionalStreamLimitUpdate",
                            !.uni = TRUE]
    /\ UNCHANGED now

RefreshTransportSettings ==
    /\ ok(conn)
    /\ hist.settingsCalls < MaxSettingsCalls
    /\ \E settings \in ConnectionSettings :
         conn' = refreshTransportSettings(beginStreamOp(conn), settings)
    /\ hist' = [hist EXCEPT !.op = "refreshTransportSettings", !.uni = FALSE,
                            !.windowed = ~hist.opened,
                            !.settingsCalls = @ + 1]
    /\ UNCHANGED now

UpdateTransportParamsFromTicket ==
    /\ ok(conn)
    /\ hist.settingsCalls < MaxSettingsCalls
    /\ \E settings \in TicketSettings :
         conn' = updateTransportParamsFromTicket(
                     beginStreamOp(conn),
                     settings.advertisedInitialMaxStreamsBidi,
                     settings.advertisedInitialMaxStreamsUni)
    /\ hist' = [hist EXCEPT !.op = "updateTransportParamsFromTicket",
                            !.uni = FALSE, !.windowed = FALSE,
                            !.settingsCalls = @ + 1]
    /\ UNCHANGED now

SetMaxRemoteBidirectionalStreams ==
    /\ ok(conn)
    /\ hist.settingsCalls < MaxSettingsCalls
    /\ \E maxStreams \in {MaxAdvertisedStreams + 1} :
         conn' = setMaxRemoteBidirectionalStreams(beginStreamOp(conn), maxStreams)
    /\ hist' = [hist EXCEPT !.op = "setMaxRemoteBidirectionalStreams",
                            !.uni = FALSE, !.windowed = FALSE,
                            !.settingsCalls = @ + 1]
    /\ UNCHANGED now

SetMaxRemoteUnidirectionalStreams ==
    /\ ok(conn)
    /\ hist.settingsCalls < MaxSettingsCalls
    /\ \E maxStreams \in {MaxPeerStreams + 1} :
         conn' = setMaxRemoteUnidirectionalStreams(beginStreamOp(conn), maxStreams)
    /\ hist' = [hist EXCEPT !.op = "setMaxRemoteUnidirectionalStreams",
                            !.uni = TRUE, !.windowed = FALSE,
                            !.settingsCalls = @ + 1]
    /\ UNCHANGED now

NextRemoteLimit ==
    \/ GetPeerStream
    \/ RemovePeerStream
    \/ RemoteBidirectionalStreamLimitUpdate
    \/ RemoteUnidirectionalStreamLimitUpdate
    \/ RefreshTransportSettings
    \/ UpdateTransportParamsFromTicket
    \/ SetMaxRemoteBidirectionalStreams
    \/ SetMaxRemoteUnidirectionalStreams

SpecRemoteLimit == InitRemoteLimit /\ [][NextRemoteLimit]_vars

(* the remote limits in streams and the pending updates, per direction *)
RemoteLimit(c, uni) ==
    IF uni
    THEN [maxStreams |-> (c.maxRemoteUnidirectionalStreamId
                            - c.initialRemoteUnidirectionalStreamId) \div kStreamIncrement,
          update |-> c.remoteUnidirectionalStreamLimitUpdate]
    ELSE [maxStreams |-> (c.maxRemoteBidirectionalStreamId
                            - c.initialRemoteBidirectionalStreamId) \div kStreamIncrement,
          update |-> c.remoteBidirectionalStreamLimitUpdate]

(* the claim's credit once a stream of the direction, which is in the open *)
(* set, is out of it                                                       *)
StreamCreditAfterRemoval(c, uni) ==
    IF uni
    THEN c.transportSettings.advertisedInitialMaxStreamsUni
             - openableRemoteUnidirectionalStreams(c)
             - (Cardinality(c.openUnidirectionalPeerStreams) - 1)
    ELSE c.transportSettings.advertisedInitialMaxStreamsBidi
             - openableRemoteBidirectionalStreams(c)
             - (Cardinality(c.openBidirectionalPeerStreams) - 1)

StreamWindow(c, uni) ==
    (IF uni
     THEN c.transportSettings.advertisedInitialMaxStreamsUni
     ELSE c.transportSettings.advertisedInitialMaxStreamsBidi)
        \div c.streamLimitWindowingFraction

(* C16 as stated, for every removal: when removeClosedStream removes a     *)
(* peer stream, with streamCredit =                                        *)
(* advertised initial maximum - openable remote streams - open peer        *)
(* streams after the removal: if streamCredit >= limit / fraction the      *)
(* remote limit of the direction grows by exactly streamCredit and the     *)
(* new limit is the pending update, else limit and pending update stay;    *)
(* the other direction's limit and update stay in both cases; and          *)
(* remote*StreamLimitUpdate() returns the pending update and leaves none.  *)
C16_WindowedLimitUpdate ==
    [][ /\ hist'.op = "removeClosedStream" =>
             LET uni == hist'.uni
                 streamCredit == StreamCreditAfterRemoval(conn, uni)
             IN /\ ok(conn')
                /\ RemoteLimit(conn', ~uni) = RemoteLimit(conn, ~uni)
                /\ IF streamCredit >= StreamWindow(conn, uni)
                   THEN /\ RemoteLimit(conn', uni).maxStreams =
                               RemoteLimit(conn, uni).maxStreams + streamCredit
                        /\ RemoteLimit(conn', uni).update =
                               RemoteLimit(conn', uni).maxStreams
                   ELSE RemoteLimit(conn', uni) = RemoteLimit(conn, uni)
        /\ hist'.op = "remoteBidirectionalStreamLimitUpdate" =>
             /\ conn'.ret.value = RemoteLimit(conn, FALSE).update
             /\ RemoteLimit(conn', FALSE).update = None
             /\ RemoteLimit(conn', TRUE) = RemoteLimit(conn, TRUE)
        /\ hist'.op = "remoteUnidirectionalStreamLimitUpdate" =>
             /\ conn'.ret.value = RemoteLimit(conn, TRUE).update
             /\ RemoteLimit(conn', TRUE).update = None
             /\ RemoteLimit(conn', FALSE) = RemoteLimit(conn, FALSE) ]_vars

(* the limit of a direction is not below the next id the peer may open *)
LimitCoversOpenedStreams(c, uni) ==
    IF uni
    THEN c.maxRemoteUnidirectionalStreamId >= c.nextAcceptablePeerUnidirectionalStreamId
    ELSE c.maxRemoteBidirectionalStreamId >= c.nextAcceptablePeerBidirectionalStreamId

(* the rule of C16 in every other removal: a removeClosedStream that      *)
(* removes a peer stream of a direction whose limit is not below the next  *)
(* acceptable id, with streamCredit = advertised initial maximum -         *)
(* openable remote streams - open peer streams after the removal, raises   *)
(* the remote limit of the direction by exactly streamCredit and makes the *)
(* new limit the pending update if streamCredit >= limit / fraction, else  *)
(* leaves limit and pending update; the other direction's limit and update *)
(* stay in both cases; and remote*StreamLimitUpdate() returns the pending  *)
(* update and leaves none, whatever was called before.                     *)
WindowedLimitUpdateWhileLimitCoversOpened ==
    [][ /\ hist'.op = "removeClosedStream" /\ LimitCoversOpenedStreams(conn, hist'.uni) =>
             LET uni == hist'.uni
                 streamCredit == StreamCreditAfterRemoval(conn, uni)
             IN /\ ok(conn')
                /\ streamCredit >= 0
                /\ RemoteLimit(conn', ~uni) = RemoteLimit(conn, ~uni)
                /\ IF streamCredit >= StreamWindow(conn, uni)
                   THEN /\ RemoteLimit(conn', uni).maxStreams =
                               RemoteLimit(conn, uni).maxStreams + streamCredit
                        /\ RemoteLimit(conn', uni).update =
                               RemoteLimit(conn', uni).maxStreams
                   ELSE RemoteLimit(conn', uni) = RemoteLimit(conn, uni)
        /\ hist'.op = "remoteBidirectionalStreamLimitUpdate" =>
             /\ conn'.ret.value = RemoteLimit(conn, FALSE).update
             /\ RemoteLimit(conn', FALSE).update = None
             /\ RemoteLimit(conn', TRUE) = RemoteLimit(conn, TRUE)
        /\ hist'.op = "remoteUnidirectionalStreamLimitUpdate" =>
             /\ conn'.ret.value = RemoteLimit(conn, TRUE).update
             /\ RemoteLimit(conn', TRUE).update = None
             /\ RemoteLimit(conn', FALSE) = RemoteLimit(conn, FALSE) ]_vars

(* with four streams advertised and the default fraction, the second       *)
(* removal made the update to six streams pending; the first, with a       *)
(* credit of one below the window of two, had made none                    *)
WindowedLimitUpdateReached ==
    /\ hist.op = "removeClosedStream"
    /\ hist.windowed
    /\ ~hist.uni
    /\ conn.transportSettings.advertisedInitialMaxStreamsBidi = 4
    /\ conn.streamLimitWindowingFraction = 2
    /\ Cardinality(conn.openBidirectionalPeerStreams) = 2
    /\ RemoteLimit(conn, FALSE) = [maxStreams |-> 6, update |-> 6]
    /\ RemoteLimit(conn, TRUE).update = None

---------------------------------------------------------------------------
(* SpecIndices: the first bidirectional stream of each side is opened,     *)
(* may be marked as a control stream, enters and leaves the manager's      *)
(* indices as data, losses and flow control make it, and is removed once   *)
(* closed; the indices hold up to MaxIndexEntries entries together.        *)
(* hist.held is the set of indices that held the stream a removal was      *)
(* asked for.                                                              *)

IndexedStreamIds == {0, 1}

IndexEntries(c) ==
    {e \in StreamIndices \X IndexedStreamIds : e[2] \in c.index[e[1]]}

InitIndices ==
    /\ \E nodeType \in NodeTypes :
         conn = setMaxLocalUnidirectionalStreams(
                    setMaxLocalBidirectionalStreams(
                        InitStreamManager(nodeType, MaxPeerStreams, MaxPeerStreams),
                        MaxLocalStreams, FALSE),
                    MaxLocalStreams, FALSE)
    /\ now = 0
    /\ hist = [op |-> "init", id |-> None, held |-> {}]

OpenIndexedStream ==
    /\ ok(conn)
    /\ \E id \in IndexedStreamIds :
         /\ conn' = keepError(IF isRemoteStream(conn.nodeType, id)
                              THEN getStream(beginStreamOp(conn), id)
                              ELSE createStream(beginStreamOp(conn), id))
         /\ hist' = [op |-> "open", id |-> None, held |-> {}]
    /\ UNCHANGED now

(* a call that fills or empties indices, within the bound on the entries *)
IndexOp(op, id, c) ==
    /\ Cardinality(IndexEntries(c)) <= MaxIndexEntries
    /\ conn' = c
    /\ hist' = [op |-> "index", id |-> None, held |-> {}]
    /\ UNCHANGED now

MarkIndexedStreamAsControl ==
    /\ ok(conn)
    /\ \E id \in DOMAIN conn.streams :
         IndexOp("setStreamAsControl", id,
                 setStreamAsControl(beginStreamOp(conn), id))

UpdateReadableStreams ==
    /\ ok(conn)
    /\ \E id \in DOMAIN conn.streams, readable \in BOOLEAN :
         IndexOp("updateReadableStreams", id,
                 updateReadableStreams(beginStreamOp(conn), id, readable))

UpdateWritableStreams ==
    /\ ok(conn)
    /\ \E id \in DOMAIN conn.streams, stream \in StreamWriteStates :
         IndexOp("updateWritableStreams", id,
                 updateWritableStreams(beginStreamOp(conn), id, stream))

UpdatePeekableStreams ==
    /\ ok(conn)
    /\ \E id \in DOMAIN conn.streams, peekable \in BOOLEAN :
         IndexOp("updatePeekableStreams", id,
                 updatePeekableStreams(beginStreamOp(conn), id, peekable))

(* queueBlocked, addDeliverable, queueFlowControlUpdated, addLoss,         *)
(* addStopSending, addTx or queueWindowUpdate with one of the ids          *)
AddToIndex ==
    /\ ok(conn)
    /\ \E id \in IndexedStreamIds, name \in QueuedIndices :
         IndexOp("addToIndex", id, addToIndex(beginStreamOp(conn), name, id))

ClearActionable ==
    /\ ok(conn)
    /\ IndexOp("clearActionable", None, clearActionable(beginStreamOp(conn)))

RemoveIndexedStream ==
    /\ ok(conn)
    /\ \E id \in IndexedStreamIds :
         /\ conn' = removeClosedStream(beginStreamOp(conn), id)
         /\ hist' = [op |-> "removeClosedStream", id |-> id,
                     held |-> {name \in StreamIndices : id \in conn.index[name]}]
    /\ UNCHANGED now

NextIndices ==
    \/ OpenIndexedStream
    \/ MarkIndexedStreamAsControl
    \/ UpdateReadableStreams
    \/ UpdateWritableStreams
    \/ UpdatePeekableStreams
    \/ AddToIndex
    \/ ClearActionable
    \/ RemoveIndexedStream

SpecIndices == InitIndices /\ [][NextIndices]_vars

(* where the manager holds a stream id: the indices, the two queues'       *)
(* priorities, the priority map, the open sets and the stream map          *)
Memberships(c, id) ==
    [index |-> {name \in StreamIndices : id \in c.index[name]},
     queues |-> {name \in DOMAIN c.queuePriority : id \in DOMAIN c.queuePriority[name]},
     priorityMap |-> IF id \in DOMAIN c.streamPriorityLevels
                     THEN {c.streamPriorityLevels[id]} ELSE {},
     open |-> id \in OpenStreams(c),
     exists |-> id \in DOMAIN c.streams]

NoMemberships ==
    [index |-> {}, queues |-> {}, priorityMap |-> {}, open |-> FALSE,
     exists |-> FALSE]

(* C17: after removeClosedStream(id) on an existing stream, findStream(id) *)
(* is null and the id is in none of the indices, not in the priority map   *)
(* and not in its open-stream set; no other stream's membership in any of  *)
(* these changes.                                                          *)
C17_RemovalClearsIndices ==
    [][ hist'.op = "removeClosedStream" /\ hist'.id \in DOMAIN conn.streams =>
          /\ ok(conn')
          /\ findStream(conn', hist'.id) = None
          /\ Memberships(conn', hist'.id) = NoMemberships
          /\ \A other \in IndexedStreamIds \ {hist'.id} :
                 Memberships(conn', other) = Memberships(conn, other) ]_vars

(* a stream held by the loss index was removed while the other stream     *)
(* stays in the DSR-writable queue                                         *)
C17_Witness ==
    /\ hist.op = "removeClosedStream"
    /\ hist.id = 1
    /\ hist.held = {"lossStreams"}
    /\ conn.nodeType = "Server"
    /\ 1 \notin DOMAIN conn.streams
    /\ 1 \notin OpenStreams(conn)
    /\ conn.nextAcceptableLocalBidirectionalStreamId = 5
    /\ 0 \in conn.index.writableDSRStreams
    /\ IndexEntries(conn) = {<<"writableDSRStreams", 0>>}

---------------------------------------------------------------------------
(* SpecPriority: the application opens bidirectional streams, data makes   *)
(* them writable or not, and setStreamPriority is called with the default  *)
(* level or the next one, as in the tests, while the observer is installed *)
(* or reset.                                                               *)

PriorityLevels ==
    {kDefaultPriority.level, (kDefaultPriority.level + 1) % (kDefaultMaxPriority + 1)}

WritableQueues == {"writableStreams", "writableDSRStreams"}

(* the ids createNextBidirectionalStream can return within the limit *)
PriorityStreamIds(c) ==
    {id \in c.initialLocalBidirectionalStreamId..(c.maxLocalBidirectionalStreamId - 1) :
        id % kStreamIncrement = c.initialLocalBidirectionalStreamId}

InitPriority ==
    /\ \E nodeType \in NodeTypes :
         conn = setPriorityChangesObserver(
                    setMaxLocalUnidirectionalStreams(
                        setMaxLocalBidirectionalStreams(
                            InitStreamManager(nodeType, MaxPeerStreams,
                                              MaxPeerStreams),
                            MaxLocalStreams, FALSE),
                        MaxLocalStreams, FALSE))
    /\ now = 0
    /\ hist = [op |-> "init", id |-> None, priority |-> kDefaultPriority]

OpenPriorityStream ==
    /\ ok(conn)
    /\ conn' = keepError(createNextBidirectionalStream(beginStreamOp(conn)))
    /\ hist' = [op |-> "createNextBidirectionalStream", id |-> None,
                priority |-> kDefaultPriority]
    /\ UNCHANGED now

UpdateWritablePriorityStream ==
    /\ ok(conn)
    /\ \E id \in DOMAIN conn.streams, stream \in StreamWriteStates :
         /\ conn' = updateWritableStreams(beginStreamOp(conn), id, stream)
         /\ hist' = [op |-> "updateWritableStreams", id |-> id,
                     priority |-> kDefaultPriority]
    /\ UNCHANGED now

SetPriorityChangesObserver ==
    /\ ok(conn)
    /\ conn' = setPriorityChangesObserver(beginStreamOp(conn))
    /\ hist' = [op |-> "setPriorityChangesObserver", id |-> None,
                priority |-> kDefaultPriority]
    /\ UNCHANGED now

ResetPriorityChangesObserver ==
    /\ ok(conn)
    /\ conn' = resetPriorityChangesObserver(beginStreamOp(conn))
    /\ hist' = [op |-> "resetPriorityChangesObserver", id |-> None,
                priority |-> kDefaultPriority]
    /\ UNCHANGED now

SetStreamPriority ==
    /\ ok(conn)
    /\ \E id \in PriorityStreamIds(conn), level \in PriorityLevels, incremental \in BOOLEAN :
         /\ conn' = setStreamPriority(beginStreamOp(conn), id, level, incremental)
         /\ hist' = [op |-> "setStreamPriority", id |-> id,
                     priority |-> [level |-> level, incremental |-> incremental]]
    /\ UNCHANGED now

(* the peer's streams, and the node's own, are looked up as frames arrive *)
GetPriorityStream ==
    /\ ok(conn)
    /\ \E id \in StreamIds :
         /\ conn' = keepError(getStream(beginStreamOp(conn), id))
         /\ hist' = [op |-> "getStream", id |-> id, priority |-> kDefaultPriority]
    /\ UNCHANGED now

RemovePriorityStream ==
    /\ ok(conn)
    /\ \E id \in DOMAIN conn.streams :
         /\ conn' = removeClosedStream(beginStreamOp(conn), id)
         /\ hist' = [op |-> "removeClosedStream", id |-> None,
                     priority |-> kDefaultPriority]
    /\ UNCHANGED now

NextPriority ==
    \/ OpenPriorityStream
    \/ UpdateWritablePriorityStream
    \/ SetPriorityChangesObserver
    \/ ResetPriorityChangesObserver
    \/ SetStreamPriority

SpecPriority == InitPriority /\ [][NextPriority]_vars

(* SpecPriorityMap: streams are created by id or as the next of their     *)
(* kind, looked up, given priorities and removed in any order; the peer    *)
(* may open MaxLazyPeerStreams streams of a kind, so that a lookup of the  *)
(* higher id opens the lower one without a record, as createStream does    *)
(* for the node's own.                                                     *)
InitPriorityMap ==
    /\ \E nodeType \in NodeTypes :
         conn = setPriorityChangesObserver(
                    setMaxLocalUnidirectionalStreams(
                        setMaxLocalBidirectionalStreams(
                            InitStreamManager(nodeType, MaxLazyPeerStreams,
                                              MaxLazyPeerStreams),
                            MaxLocalStreams, FALSE),
                        MaxLocalStreams, FALSE))
    /\ now = 0
    /\ hist = [op |-> "init", id |-> None, priority |-> kDefaultPriority]

CreatePriorityStream ==
    /\ ok(conn)
    /\ \E id \in StreamIds :
         /\ conn' = keepError(createStream(beginStreamOp(conn), id))
         /\ hist' = [op |-> "createStream", id |-> None, priority |-> kDefaultPriority]
    /\ UNCHANGED now

OpenUnidirectionalPriorityStream ==
    /\ ok(conn)
    /\ conn' = keepError(createNextUnidirectionalStream(beginStreamOp(conn)))
    /\ hist' = [op |-> "createNextUnidirectionalStream", id |-> None,
                priority |-> kDefaultPriority]
    /\ UNCHANGED now

(* a priority level is set on any id, with a stream or without; the map   *)
(* holds levels, the incremental flag stays the default                    *)
SetAnyStreamPriority ==
    /\ ok(conn)
    /\ \E id \in StreamIds, level \in PriorityLevels :
         /\ conn' = setStreamPriority(beginStreamOp(conn), id, level,
                                      kDefaultPriority.incremental)
         /\ hist' = [op |-> "setStreamPriority", id |-> None,
                     priority |-> kDefaultPriority]
    /\ UNCHANGED now

NextPriorityMap ==
    \/ CreatePriorityStream
    \/ OpenPriorityStream
    \/ OpenUnidirectionalPriorityStream
    \/ SetAnyStreamPriority
    \/ GetPriorityStream
    \/ RemovePriorityStream

SpecPriorityMap == InitPriorityMap /\ [][NextPriorityMap]_vars

(* C18: setStreamPriority on an existing stream with the (level,           *)
(* incremental) pair the stream has returns false, changes no state and    *)
(* does not notify the observer; with a different pair it returns true,    *)
(* sets the stream's priority, the priority-map entry and the entries of   *)
(* the writable and DSR-writable queues that hold the stream, and notifies *)
(* the observer, when one is installed, exactly once; the same call        *)
(* repeated at once returns false.                                         *)
C18_SetStreamPriorityIdempotent ==
    [][ hist'.op = "setStreamPriority" /\ hist'.id \in DOMAIN conn.streams =>
          LET id == hist'.id IN
          /\ ok(conn')
          /\ IF conn.streams[id].priority = hist'.priority
             THEN /\ ~conn'.ret.flag
                  /\ beginStreamOp(conn') = beginStreamOp(conn)
                  /\ conn'.onStreamPrioritiesChangeCalls = 0
             ELSE /\ conn'.ret.flag
                  /\ conn'.streams[id].priority = hist'.priority
                  /\ conn'.streamPriorityLevels[id] = hist'.priority.level
                  /\ \A name \in WritableQueues :
                         id \in conn.index[name] =>
                             conn'.queuePriority[name][id] = hist'.priority
                  /\ conn'.onStreamPrioritiesChangeCalls =
                         IF conn.priorityChangesObserver THEN 1 ELSE 0
          /\ hist.op = "setStreamPriority" /\ hist.id = id
                 /\ hist.priority = hist'.priority
               => ~conn'.ret.flag ]_vars

(* the priority of a stream held by both writable queues was changed while *)
(* another stream keeps the default priority                               *)
C18_Witness ==
    /\ hist.op = "setStreamPriority"
    /\ conn.ret.flag
    /\ hist.id \in conn.index.writableStreams \cap conn.index.writableDSRStreams
    /\ hist.priority # kDefaultPriority
    /\ conn.queuePriority.writableDSRStreams[hist.id] = hist.priority
    /\ conn.priorityChangesObserver
    /\ conn.onStreamPrioritiesChangeCalls = 1
    /\ \E other \in DOMAIN conn.streams :
           other # hist.id /\ conn.streams[other].priority = kDefaultPriority

---------------------------------------------------------------------------
(* C21: createStream with an id of the node's own role never raises: for   *)
(* an id that was created before (below the next-acceptable cursor of its  *)
(* kind), be the stream open with a record, open without one or closed, it *)
(* returns CREATING_EXISTING_STREAM, and for an id at or beyond the local  *)
(* limit it returns STREAM_LIMIT_EXCEEDED.                                 *)
C21_CreationFailuresReturned ==
    [][ hist'.op = "createStream" /\ isLocalStream(conn.nodeType, hist'.id) =>
          LET id == hist'.id
              f == localFields(id)
          IN /\ ok(conn')
             /\ id < conn[f.next] =>
                    conn'.ret.error = "CREATING_EXISTING_STREAM"
             /\ id >= conn[f.next] /\ id >= conn[f.max] =>
                    conn'.ret.error = "STREAM_LIMIT_EXCEEDED" ]_vars

---------------------------------------------------------------------------
(* RTT estimation: updateRtt applied to samples, starting from the         *)
(* estimator of a new connection (srtt 0, mrtt kDefaultMinRtt).            *)
MaxRttSample == 9      \* RTT samples are drawn from 1..MaxRttSample (microseconds)
MaxAckDelay == 2       \* ACK delays are drawn from 0..MaxAckDelay (microseconds)

(* QuicStateFunctions.cpp 49-57: the sample the filter is fed, the ACK     *)
(* delay taken off when the code decides to use it                         *)
rttSampleFed(c, rttSampleIn, ackDelay) == updateRtt(c, rttSampleIn, ackDelay).lossState.lrtt

Distance(a, b) == IF a > b THEN a - b ELSE b - a

InitRtt ==
    /\ conn = EstablishedConn
    /\ now = 0
    /\ hist = [op |-> "init", rttSample |-> 0, ackDelay |-> 0, sample |-> 0,
               srttBefore |-> 0, seeded |-> FALSE]

UpdateRtt ==
    /\ \E rttSampleIn \in 1..MaxRttSample, ackDelay \in 0..MaxAckDelay :
         /\ conn' = updateRtt(conn, rttSampleIn, ackDelay)
         /\ hist' = [op |-> "updateRtt",
                     rttSample |-> rttSampleIn,
                     ackDelay |-> ackDelay,
                     sample |-> rttSampleFed(conn, rttSampleIn, ackDelay),
                     srttBefore |-> conn.lossState.srtt,
                     seeded |-> hist.op = "updateRtt"]
    /\ UNCHANGED now

NextRtt == UpdateRtt

SpecRtt == InitRtt /\ [][NextRtt]_vars

(* C22: every updateRtt call on a seeded estimator leaves srtt no farther  *)
(* from the sample fed to the filter than it was, and every updateRtt call *)
(* leaves mrtt no larger and maxAckDelay no smaller.                       *)
C22_SrttMovesTowardSample ==
    [][ hist'.op = "updateRtt" =>
          /\ conn.lossState.srtt # 0 =>
                Distance(conn'.lossState.srtt, hist'.sample)
                    <= Distance(conn.lossState.srtt, hist'.sample)
          /\ conn'.lossState.mrtt <= conn.lossState.mrtt
          /\ conn'.lossState.maxAckDelay >= conn.lossState.maxAckDelay ]_vars

(* C22, amended: the two truncating divisions of the filter let srtt end   *)
(* at most one microsecond farther from the sample than it was; on a       *)
(* seeded estimator the distance of srtt to the sample fed to the filter   *)
(* grows by at most 1, and every updateRtt call leaves mrtt no larger and  *)
(* maxAckDelay no smaller.                                                 *)
C22_SrttWithinOneOfSample ==
    [][ hist'.op = "updateRtt" =>
          /\ conn.lossState.srtt # 0 =>
                Distance(conn'.lossState.srtt, hist'.sample)
                    <= Distance(conn.lossState.srtt, hist'.sample) + 1
          /\ conn'.lossState.mrtt <= conn.lossState.mrtt
          /\ conn'.lossState.maxAckDelay >= conn.lossState.maxAckDelay ]_vars

(* a sample was fed to a seeded estimator and srtt ended farther from it *)
C22_Witness ==
    /\ hist.op = "updateRtt"
    /\ hist.srttBefore # 0
    /\ Distance(conn.lossState.srtt, hist.sample)
          = Distance(hist.srttBefore, hist.sample) + 1

---------------------------------------------------------------------------
(* a getStream step of the peer id `id` that found the id at or past the   *)
(* next-acceptable cursor of its kind and below the advertised maximum     *)
IsImplicitOpen(id) ==
    /\ hist'.op = "getStream"
    /\ isRemoteStream(conn.nodeType, id)
    /\ conn' = keepError(getStream(beginStreamOp(conn), id))
    /\ id >= conn[peerFields(id).next]
    /\ id < conn[peerFields(id).max]

(* the ids a step added to the open peer set of the kind of `id` *)
NewlyOpened(id) == conn'[peerFields(id).open] \ conn[peerFields(id).open]

(* C23 as stated: an implicit open adds ceil((id - prev_next) / 4) ids to  *)
(* the open peer set and to newPeerStreams and sets the next-acceptable    *)
(* cursor to id + 4.                                                       *)
C23_ImplicitOpenCeiling ==
    [][ \A id \in RemoteLimitIds : IsImplicitOpen(id) =>
          LET prev_next == conn[peerFields(id).next]
              opened == (id - prev_next + kStreamIncrement - 1) \div kStreamIncrement
          IN /\ Cardinality(NewlyOpened(id)) = opened
             /\ Len(conn'.newPeerStreams) = Len(conn.newPeerStreams) + opened
             /\ conn'[peerFields(id).next] = id + kStreamIncrement ]_vars

(* C23, amended: an implicit open adds the (id - prev_next) / 4 + 1 ids    *)
(* prev_next, prev_next + 4, ..., id to the open peer set and appends them *)
(* to newPeerStreams, and sets the next-acceptable cursor to id + 4.       *)
C23_ImplicitOpenInclusive ==
    [][ \A id \in RemoteLimitIds : IsImplicitOpen(id) =>
          LET prev_next == conn[peerFields(id).next]
              opened == (id - prev_next) \div kStreamIncrement + 1
          IN /\ Cardinality(NewlyOpened(id)) = opened
             /\ NewlyOpened(id) =
                   {s \in prev_next..id : (s - prev_next) % kStreamIncrement = 0}
             /\ Len(conn'.newPeerStreams) = Len(conn.newPeerStreams) + opened
             /\ \A s \in NewlyOpened(id) :
                   \E i \in (Len(conn.newPeerStreams) + 1)..Len(conn'.newPeerStreams) :
                       conn'.newPeerStreams[i] = s
             /\ conn'[peerFields(id).next] = id + kStreamIncrement ]_vars

(* getStream(4) of a new server opened the peer streams 0 and 4 at once *)
C23_Witness ==
    /\ hist.op = "getStream"
    /\ conn.newPeerStreams = <<0, kStreamIncrement>>
    /\ conn.openBidirectionalPeerStreams = {0, kStreamIncrement}
    /\ DOMAIN conn.streams = {kStreamIncrement}
    /\ conn.nextAcceptablePeerBidirectionalStreamId = 2 * kStreamIncrement
---------------------------------------------------------------------------
(* a read of an Open connection whose first packet the codec decrypted,    *)
(* on a connection that accepted its first packet before                   *)
IsRegularRead ==
    /\ IsRead
    /\ conn.state = "Open"
    /\ conn.hasReadCodec
    /\ hist'.first.type = "REGULAR_PACKET"

(* what onConnectionMigration writes and the frames of a packet do not:    *)
(* the peer address, the migration state, the path challenge to send and   *)
(* the limiter of the unvalidated path.  The RTT, the loss state and the   *)
(* outstanding path validation are written by ACK and PATH_RESPONSE frames *)
(* too and are not part of it.                                             *)
MigrationView(c) ==
    [ peerAddress |-> c.peerAddress,
      migrationState |-> c.migrationState,
      pathChallenge |-> c.pendingEvents.pathChallenge,
      pathValidationLimiter |-> c.pathValidationLimiter ]

LargestReceivedBefore ==
    conn.ackStates[protectionTypeToPacketNumberSpace(
                       hist'.first.protectionType)].largestReceivedPacketNum

LargestReceivedAfter ==
    conn'.ackStates[protectionTypeToPacketNumberSpace(
                        hist'.first.protectionType)].largestReceivedPacketNum

(* C24: a read migrates the connection only if the packet's source differs *)
(* from peerAddress, the packet is non-probing and its number is the       *)
(* largest received of its space after the update; a non-probing packet    *)
(* from another address that is older than the largest received leaves     *)
(* peerAddress, numMigrations and all migration state unchanged.           *)
C24_MigrationOnlyOnNewestPacket ==
    [][ IsRegularRead =>
          /\ MigrationView(conn') # MigrationView(conn) =>
                /\ hist'.peer # conn.peerAddress
                /\ isNonProbingPacket(hist'.first)
                /\ hist'.first.packetNum = LargestReceivedAfter
          /\ /\ hist'.peer # conn.peerAddress
             /\ isNonProbingPacket(hist'.first)
             /\ hist'.first.packetNum < LargestReceivedBefore
             => MigrationView(conn') = MigrationView(conn) ]_vars

(* a STREAM packet older than the largest received came from another       *)
(* address and was processed, on a connection whose RTT an ACK frame from  *)
(* the peer address had updated                                            *)
C24_Witness ==
    /\ hist.op = "onServerReadData"
    /\ ok(conn)
    /\ hist.first.type = "REGULAR_PACKET"
    /\ hist.first.frames = <<"STREAM">>
    /\ hist.peer # conn.peerAddress
    /\ hist.first.packetNum < conn.ackStates["AppData"].largestReceivedPacketNum
    /\ conn.migrationState.numMigrations = 0
    /\ conn.lossState.lrtt = AckRttSample
---------------------------------------------------------------------------
(* the frames of a probing packet *)
ProbingFrames == {"PATH_CHALLENGE", "PATH_RESPONSE", "PADDING"}

HasOnlyProbingFrames(frames) ==
    \A i \in DOMAIN frames : frames[i] \in ProbingFrames

(* C25: a received packet is classified probing iff each of its frames is  *)
(* PATH_CHALLENGE, PATH_RESPONSE or PADDING; a packet with any other frame *)
(* is non-probing and, arriving newest in its space from another address   *)
(* at the AppData level with migration enabled, migrates the connection    *)
(* (unless a CONNECTION_CLOSE frame ends the processing first), while a    *)
(* probing one is refused with INVALID_MIGRATION.                          *)
C25_ProbingClassification ==
    [][ IsRegularRead /\ hist'.first.frames # <<>> =>
          /\ isNonProbingPacket(hist'.first)
               <=> ~HasOnlyProbingFrames(hist'.first.frames)
          /\ /\ hist'.peer # conn.peerAddress
             /\ IsAppData(hist'.first.protectionType)
             /\ ~conn.transportSettings.disableMigration
             /\ hist'.first.packetNum = LargestReceivedAfter
             /\ ~hasConnectionCloseFrame(hist'.first)
             => IF HasOnlyProbingFrames(hist'.first.frames)
                THEN /\ conn'.err = "INVALID_MIGRATION"
                     /\ conn'.peerAddress = conn.peerAddress
                ELSE /\ ok(conn')
                     /\ conn'.peerAddress = hist'.peer ]_vars
---------------------------------------------------------------------------
(* the two addresses have the same IP address, or are both IPv4 addresses  *)
(* of one /24                                                              *)
SameIPOrSubnet(a, b) ==
    \/ a.v4 = b.v4 /\ a.net = b.net /\ a.host = b.host
    \/ a.v4 /\ b.v4 /\ a.net = b.net

(* C26: a migration between addresses of the same IP, or both IPv4 within  *)
(* one /24, leaves the congestion controller, srtt, lrtt, rttvar, mrtt and *)
(* lastCongestionAndRtt unchanged, a path validation pending or not, and   *)
(* peerAddress becomes the new address.                                    *)
C26_NATRebindingKeepsCongestionState ==
    [][ /\ hist'.op = "onConnectionMigration"
        /\ ok(conn')
        /\ SameIPOrSubnet(hist'.newPeerAddress, conn.peerAddress)
        => /\ CongestionAndRtt(conn') = CongestionAndRtt(conn)
           /\ conn'.migrationState.lastCongestionAndRtt
                = conn.migrationState.lastCongestionAndRtt
           /\ conn'.peerAddress = hist'.newPeerAddress ]_vars

(* with the RTT seeded, the peer moved from A1 to A3 and, before A3 was    *)
(* validated, to another port of A1: both rebindings, the second with a    *)
(* PATH_CHALLENGE pending                                                  *)
C26_Witness ==
    /\ hist.op = "onConnectionMigration"
    /\ conn.peerAddress = A2
    /\ conn.migrationState.numMigrations = 2
    /\ conn.migrationState.previousPeerAddresses = <<A1>>
    /\ conn.lossState.srtt # 0
    /\ conn.congestionController = 1
---------------------------------------------------------------------------
(* C27: after a successful onConnectionMigration(newPeerAddress),          *)
(* peerAddress is newPeerAddress; if newPeerAddress was not among          *)
(* previousPeerAddresses a PATH_CHALLENGE is queued and a path rate        *)
(* limiter exists, if it was none is queued, whatever was queued before;   *)
(* no path validation is outstanding and its timeout is not scheduled.     *)
C27_MigrationPostconditions ==
    [][ hist'.op = "onConnectionMigration" /\ ok(conn') =>
          /\ conn'.peerAddress = hist'.newPeerAddress
          /\ IF Contains(conn.migrationState.previousPeerAddresses,
                         hist'.newPeerAddress)
             THEN conn'.pendingEvents.pathChallenge = None
             ELSE /\ conn'.pendingEvents.pathChallenge # None
                  /\ conn'.pathValidationLimiter
          /\ conn'.outstandingPathValidation = None
          /\ ~conn'.pendingEvents.schedulePathValidationTimeout ]_vars

(* the peer left A1 and came back before the path to the address in        *)
(* between was validated: the PATH_CHALLENGE queued for it is gone         *)
C27_Witness ==
    /\ hist.op = "onConnectionMigration"
    /\ conn.peerAddress = A1
    /\ conn.migrationState.numMigrations = 2
    /\ conn.migrationState.previousPeerAddresses = <<>>
    /\ conn.pendingEvents.pathChallenge = None
    /\ conn.outstandingPathValidation = None
---------------------------------------------------------------------------
IsClosedRead == IsRead /\ conn.state = "Closed"

(* the connection with the two fields a Closed read may write, and the     *)
(* error raised, taken from another                                        *)
WithCloseFieldsOf(c, other, s) ==
    [c EXCEPT !.peerConnectionError = other.peerConnectionError,
              !.ackStates[s].largestReceivedPacketNum =
                  other.ackStates[s].largestReceivedPacketNum,
              !.err = other.err]

(* a Closed read leaves everything but peerConnectionError and the largest *)
(* received packet number of the packet's space as it was                  *)
OnlyCloseFieldsChange ==
    WithCloseFieldsOf(
        conn', conn,
        protectionTypeToPacketNumberSpace(hist'.first.protectionType)) = conn

(* C28 as stated: a read in state Closed changes nothing but               *)
(* peerConnectionError and the largestReceivedPacketNum of the packet's    *)
(* space, and raises no error whatever the datagram holds.                 *)
C28_ClosedReadsNeverRaise ==
    [][ IsClosedRead => OnlyCloseFieldsChange /\ ok(conn') ]_vars

(* C28, amended: a read in state Closed changes nothing but                *)
(* peerConnectionError, set only by a CONNECTION_CLOSE frame, and the      *)
(* largestReceivedPacketNum of the packet's space; it raises               *)
(* PROTOCOL_VIOLATION, changing nothing, for a decrypted packet without    *)
(* frames read before a peer error is recorded, and no error otherwise.    *)
C28_ClosedReadsOnlyCloseFrames ==
    [][ IsClosedRead =>
          /\ OnlyCloseFieldsChange
          /\ conn'.peerConnectionError # conn.peerConnectionError =>
                hasConnectionCloseFrame(hist'.first)
          /\ IF /\ conn.hasReadCodec
                /\ ~conn.peerConnectionError
                /\ hist'.first.type = "REGULAR_PACKET"
                /\ hist'.first.frames = <<>>
             THEN /\ conn'.err = "PROTOCOL_VIOLATION"
                  /\ conn'.ackStates = conn.ackStates
                  /\ conn'.peerConnectionError = conn.peerConnectionError
             ELSE ok(conn') ]_vars

(* a Closed connection with streams and a buffered packet read a           *)
(* CONNECTION_CLOSE packet and recorded the peer's error                   *)
C28_Witness ==
    /\ hist.op = "onServerReadData"
    /\ hist.state = "Closed"
    /\ hist.first.frames = <<"CONNECTION_CLOSE">>
    /\ conn.peerConnectionError
    /\ conn.streams # {}
---------------------------------------------------------------------------
(* what the peer's transport parameters and the 1-RTT keys set *)
NegotiatedState(c) ==
    [ flowControlState |-> c.flowControlState,
      maxLocalBidirectionalStreamId |-> c.maxLocalBidirectionalStreamId,
      maxLocalUnidirectionalStreamId |-> c.maxLocalUnidirectionalStreamId,
      peerIdleTimeout |-> c.peerIdleTimeout,
      oneRttWriteCipher |-> c.oneRttWriteCipher ]

(* C29: an updateHandshakeState call that raises TRANSPORT_PARAMETER_ERROR *)
(* leaves the peer's flow-control windows, the local stream limits,        *)
(* peerIdleTimeout and the installed 1-RTT write cipher as they were       *)
(* before the call.                                                        *)
C29_NoPartialCommitOnParameterError ==
    [][ /\ hist'.op = "updateHandshakeState"
        /\ conn'.err = "TRANSPORT_PARAMETER_ERROR"
        => NegotiatedState(conn') = NegotiatedState(conn) ]_vars
---------------------------------------------------------------------------
(* The source-address token of 0-RTT: validateAndUpdateSourceToken applied *)
(* to the addresses a resumption token presents.                           *)

kMaxNumTokenSourceAddresses == 3
MaxTokenAddresses == 3     \* a token presents at most MaxTokenAddresses addresses
MaxTokenValidations == 2   \* tokens validated on one connection

(* vector::erase of the element at index i (from 1) *)
EraseAt(seq, i) == SubSeq(seq, 1, i - 1) \o SubSeq(seq, i + 1, Len(seq))

(* ServerStateMachine.cpp 409-418: the loop from the last address to the   *)
(* first; an address equal to the peer's is moved to the end               *)
RECURSIVE moveMatchesToEnd(_, _, _, _)
moveMatchesToEnd(sourceAddresses, peerIP, ii, foundMatch) ==
    IF ii < 1 THEN [sourceAddresses |-> sourceAddresses, foundMatch |-> foundMatch]
    ELSE IF peerIP = sourceAddresses[ii]
         THEN moveMatchesToEnd(Append(EraseAt(sourceAddresses, ii), peerIP),
                               peerIP, ii - 1, TRUE)
         ELSE moveMatchesToEnd(sourceAddresses, peerIP, ii - 1, foundMatch)

(* the newest address gives way to the peer's *)
addPeerAddressEvictingNewest(sourceAddresses, peerIP) ==
    Append(IF Len(sourceAddresses) >= kMaxNumTokenSourceAddresses
           THEN EraseAt(sourceAddresses, Len(sourceAddresses))
           ELSE sourceAddresses,
           peerIP)

(* ServerStateMachine.cpp 426-430 *)
addPeerAddress(sourceAddresses, peerIP) ==
    Append(IF Len(sourceAddresses) >= kMaxNumTokenSourceAddresses
           THEN EraseAt(sourceAddresses, 1)
           ELSE sourceAddresses,
           peerIP)

(* ServerStateMachine.cpp 404-448: the connection after the call and the   *)
(* value returned                                                          *)
validateAndUpdateSourceToken(c, sourceAddressesIn) ==
    LET policy == c.transportSettings.zeroRttSourceTokenMatchingPolicy
        peerIP == IPAddress(c.peerAddress)
        moved == moveMatchesToEnd(sourceAddressesIn, peerIP,
                                  Len(sourceAddressesIn), FALSE)
        foundMatch == moved.foundMatch
        c1 == [c EXCEPT !.sourceTokenMatching = foundMatch]
    IN IF foundMatch
       THEN [conn |-> [c1 EXCEPT !.tokenSourceAddresses = moved.sourceAddresses],
             acceptZeroRtt |-> policy # "ALWAYS_REJECT"]
       ELSE LET sourceAddresses == addPeerAddress(moved.sourceAddresses, peerIP)
                limit == policy = "LIMIT_IF_NO_EXACT_MATCH"
                c2 == IF limit
                      THEN [c1 EXCEPT !.writableBytesLimit =
                               c.transportSettings.limitedCwndInMss
                                   * c.udpSendPacketLen]
                      ELSE c1
            IN [conn |-> [c2 EXCEPT !.tokenSourceAddresses = sourceAddresses],
                acceptZeroRtt |-> limit]

ZeroRttSourceTokenMatchingPolicies ==
    {"ALWAYS_REJECT", "REJECT_IF_NO_EXACT_MATCH", "LIMIT_IF_NO_EXACT_MATCH"}

(* the peers whose tokens are validated: another port of A1, and A4 *)
TokenPeers == {A2, A4}

TokenIPs == {IPAddress(A1), IPAddress(A3), IPAddress(A4)}

(* the address lists a token presents *)
TokenSourceAddresses ==
    UNION {[1..n -> TokenIPs] : n \in 0..MaxTokenAddresses}

InitSourceToken ==
    /\ \E policy \in ZeroRttSourceTokenMatchingPolicies, peer \in TokenPeers :
         conn = [EstablishedConn EXCEPT
                   !.peerAddress = peer,
                   !.transportSettings.zeroRttSourceTokenMatchingPolicy = policy]
    /\ now = 0
    /\ hist = [op |-> "init", sourceAddresses |-> <<>>,
               acceptZeroRtt |-> FALSE, calls |-> 0]

ValidateAndUpdateSourceToken ==
    /\ hist.calls < MaxTokenValidations
    /\ \E sourceAddresses \in TokenSourceAddresses :
         LET r == validateAndUpdateSourceToken(conn, sourceAddresses) IN
         /\ conn' = r.conn
         /\ hist' = [op |-> "validateAndUpdateSourceToken",
                     sourceAddresses |-> sourceAddresses,
                     acceptZeroRtt |-> r.acceptZeroRtt,
                     calls |-> hist.calls + 1]
    /\ UNCHANGED now

NextSourceToken == ValidateAndUpdateSourceToken

SpecSourceToken == InitSourceToken /\ [][NextSourceToken]_vars

(* the peer's IP address is among the addresses the token presented *)
PeerIPPresented == Contains(hist'.sourceAddresses, IPAddress(conn.peerAddress))

(* what is persisted for the next token: the presented addresses with the  *)
(* peer's IP at the end, once, the oldest gone if the list was full        *)
TokenListUpdated ==
    LET peerIP == IPAddress(conn.peerAddress)
        input == hist'.sourceAddresses
        saved == conn'.tokenSourceAddresses
    IN /\ saved # <<>>
       /\ saved[Len(saved)] = peerIP
       /\ Len(input) <= kMaxNumTokenSourceAddresses =>
             /\ Len(saved) <= kMaxNumTokenSourceAddresses
             /\ ~PeerIPPresented =>
                   saved = Append(IF Len(input) = kMaxNumTokenSourceAddresses
                                  THEN Tail(input) ELSE input, peerIP)

(* ALWAYS_REJECT rejects, REJECT_IF_NO_EXACT_MATCH accepts iff the peer's  *)
(* IP was presented                                                        *)
RejectingPolicies ==
    LET policy == conn.transportSettings.zeroRttSourceTokenMatchingPolicy IN
    /\ policy = "ALWAYS_REJECT" => ~hist'.acceptZeroRtt
    /\ policy = "REJECT_IF_NO_EXACT_MATCH" =>
          (hist'.acceptZeroRtt <=> PeerIPPresented)

IsLimiting ==
    conn.transportSettings.zeroRttSourceTokenMatchingPolicy
        = "LIMIT_IF_NO_EXACT_MATCH"

LimitedBytes == conn.transportSettings.limitedCwndInMss * conn.udpSendPacketLen

(* C30 as stated: ALWAYS_REJECT rejects; REJECT_IF_NO_EXACT_MATCH accepts  *)
(* iff the peer's IP was presented; LIMIT_IF_NO_EXACT_MATCH accepts and    *)
(* leaves writableBytesLimit at limitedCwndInMss * udpSendPacketLen; the   *)
(* persisted list ends with the peer's IP and keeps within                 *)
(* kMaxNumTokenSourceAddresses, the oldest address evicted first.          *)
C30_LimitAlwaysInstalled ==
    [][ hist'.op = "validateAndUpdateSourceToken" =>
          /\ RejectingPolicies
          /\ IsLimiting => /\ hist'.acceptZeroRtt
                           /\ conn'.writableBytesLimit = LimitedBytes
          /\ TokenListUpdated ]_vars

(* C30, amended: as stated, but LIMIT_IF_NO_EXACT_MATCH installs the limit *)
(* only when the peer's IP was not presented; when it was, the call        *)
(* leaves writableBytesLimit as it found it.                               *)
C30_SourceTokenPolicy ==
    [][ hist'.op = "validateAndUpdateSourceToken" =>
          /\ RejectingPolicies
          /\ IsLimiting =>
                /\ hist'.acceptZeroRtt
                /\ conn'.writableBytesLimit =
                      IF PeerIPPresented THEN conn.writableBytesLimit
                      ELSE LimitedBytes
          /\ TokenListUpdated ]_vars

(* under LIMIT_IF_NO_EXACT_MATCH a full token without the peer's IP was    *)
(* accepted with the limit installed and its oldest address evicted        *)
C30_Witness ==
    /\ hist.op = "validateAndUpdateSourceToken"
    /\ conn.transportSettings.zeroRttSourceTokenMatchingPolicy
         = "LIMIT_IF_NO_EXACT_MATCH"
    /\ Len(hist.sourceAddresses) = kMaxNumTokenSourceAddresses
    /\ ~conn.sourceTokenMatching
    /\ hist.acceptZeroRtt
    /\ conn.writableBytesLimit = conn.transportSettings.limitedCwndInMss
                                     * conn.udpSendPacketLen
    /\ conn.tokenSourceAddresses
         = Append(Tail(hist.sourceAddresses), IPAddress(conn.peerAddress))
---------------------------------------------------------------------------
(* the sample an updateRtt step fed to the filter, given whether the ACK   *)
(* delay was to be taken off                                               *)
FedSampleIs(subtracted) ==
    conn'.lossState.lrtt = IF subtracted THEN hist'.rttSample - hist'.ackDelay
                           ELSE hist'.rttSample

(* C31 as stated: the ACK delay is taken off the sample exactly when       *)
(* rttSample > ackDelay and (rttSample > mrtt + ackDelay or mrtt is        *)
(* kDefaultMinRtt), mrtt in both comparisons the minimum after             *)
(* mrtt = min(mrtt, rttSample); the stored mrtt is never reduced by the    *)
(* ACK delay.                                                              *)
C31_AckDelayAgainstNewMinRtt ==
    [][ hist'.op = "updateRtt" =>
          LET mrtt == conn'.lossState.mrtt IN
          /\ FedSampleIs(/\ hist'.rttSample > hist'.ackDelay
                         /\ \/ hist'.rttSample > mrtt + hist'.ackDelay
                            \/ mrtt = kDefaultMinRtt)
          /\ mrtt = Min(conn.lossState.mrtt, hist'.rttSample) ]_vars

(* C31, amended: the ACK delay is taken off the sample exactly when        *)
(* rttSample > ackDelay and (rttSample > min(mrtt, rttSample) + ackDelay   *)
(* or the mrtt stored before the call is kDefaultMinRtt, that is no sample *)
(* was taken since the estimator was made or reset); the stored mrtt is    *)
(* min(mrtt, rttSample), never reduced by the ACK delay.                   *)
C31_AckDelayAgainstStoredMinRtt ==
    [][ hist'.op = "updateRtt" =>
          LET mrtt == conn'.lossState.mrtt IN
          /\ FedSampleIs(/\ hist'.rttSample > hist'.ackDelay
                         /\ \/ hist'.rttSample > mrtt + hist'.ackDelay
                            \/ conn.lossState.mrtt = kDefaultMinRtt)
          /\ mrtt = Min(conn.lossState.mrtt, hist'.rttSample) ]_vars

(* the first sample of an estimator had its ACK delay taken off although   *)
(* it is the minimum itself                                                *)
C31_Witness ==
    /\ hist.op = "updateRtt"
    /\ ~hist.seeded
    /\ hist.ackDelay > 0
    /\ conn.lossState.mrtt = hist.rttSample
    /\ conn.lossState.lrtt = hist.rttSample - hist.ackDelay

(* C32: updateRtt seeds srtt = sample and rttvar = sample / 2 only on the  *)
(* first sample of an estimator; every later call applies the filter with  *)
(* alpha = 1/8 and beta = 1/4, whatever samples came before.               *)
C32_SeedsOnFirstSampleOnly ==
    [][ hist'.op = "updateRtt" =>
          LET ls == conn.lossState
              sample == hist'.sample
          IN IF hist'.seeded
             THEN /\ conn'.lossState.srtt =
                        (ls.srtt * (kRttAlpha - 1)) \div kRttAlpha
                            + sample \div kRttAlpha
                  /\ conn'.lossState.rttvar =
                        (ls.rttvar * (kRttBeta - 1)) \div kRttBeta
                            + Distance(ls.srtt, sample) \div kRttBeta
             ELSE /\ conn'.lossState.srtt = sample
                  /\ conn'.lossState.rttvar = sample \div 2 ]_vars

(* C33: in every state reached through updateAckSendStateOnRecvPacket,     *)
(* updateAckStateOnAckTimeout and updateAckSendStateOnSentPacketWithAcks,  *)
(* a space whose needsToSendAckImmediately latch is set has both packet    *)
(* counters at zero; and right after a packet carrying an ACK was sent for *)
(* a space, that space's latch is clear, both its counters are zero, the   *)
(* ack timeout is not scheduled and its largestAckScheduled is the value   *)
(* that was passed in.                                                     *)
C33_LatchedSpaceHasZeroCounters ==
    /\ \A s \in PacketNumberSpaces :
          conn.ackStates[s].needsToSendAckImmediately
            => /\ conn.ackStates[s].numRxPacketsRecvd = 0
               /\ conn.ackStates[s].numNonRxPacketsRecvd = 0
    /\ hist.op = "ackSent"
         => /\ ~conn.ackStates[hist.space].needsToSendAckImmediately
            /\ conn.ackStates[hist.space].numRxPacketsRecvd = 0
            /\ conn.ackStates[hist.space].numNonRxPacketsRecvd = 0
            /\ ~conn.pendingEvents.scheduleAckTimeout
            /\ conn.ackStates[hist.space].largestAckScheduled
                 = hist.largestAckScheduled

(* a retransmittable packet received in order by a space whose latch was   *)
(* already set: the counter it incremented is back at zero, while another  *)
(* space, not latched, still counts a packet                               *)
C33_Witness ==
    /\ hist.op = "recv"
    /\ hist.pktHasRetransmittableData
    /\ ~hist.pktHasCryptoData
    /\ ~hist.pktOutOfOrder
    /\ hist.rxSinceAck[hist.space] = 2
    /\ conn.ackStates[hist.space].tolerance = None
    /\ conn.ackStates[hist.space].needsToSendAckImmediately
    /\ conn.ackStates[hist.space].numRxPacketsRecvd = 0
    /\ \E t \in PacketNumberSpaces :
          /\ ~conn.ackStates[t].needsToSendAckImmediately
          /\ conn.ackStates[t].numRxPacketsRecvd > 0
          /\ conn.ackStates[t].largestAckScheduled = 1

(* an ack timeout is pending on behalf of space s: s received a            *)
(* retransmittable packet since its last ACK and is not latched            *)
TimeoutPendingFor(c, h, s) ==
    /\ c.pendingEvents.scheduleAckTimeout
    /\ h.rxSinceAck[s] > 0
    /\ ~c.ackStates[s].needsToSendAckImmediately

(* C34: ACK scheduling is independent per packet-number space: a packet    *)
(* received in space S, or an ACK sent for S, leaves the ack state of      *)
(* every other space S' as it was and does not cancel an ack timeout       *)
(* pending on behalf of S'; the ack timeout firing leaves the ack state of *)
(* every space it was not pending for as it was.                           *)
C34_SpacesScheduleAcksIndependently ==
    [][ \A t \in PacketNumberSpaces :
          /\ hist'.op \in {"recv", "ackSent"} /\ hist'.space # t
               => /\ conn'.ackStates[t] = conn.ackStates[t]
                  /\ TimeoutPendingFor(conn, hist, t)
                       => conn'.pendingEvents.scheduleAckTimeout
          /\ hist'.op = "ackTimeout" /\ ~TimeoutPendingFor(conn, hist, t)
               => conn'.ackStates[t] = conn.ackStates[t] ]_vars

---------------------------------------------------------------------------
(* SpecConnId: the server issues connection IDs for itself, the first when *)
(* it reads the client's first datagram, the others afterwards.  Every     *)
(* call meets an algorithm that fails at a chosen candidate or never, and  *)
(* a rejector (or none) that rejects a chosen number of the candidates to  *)
(* come.                                                                   *)

MaxConnIdCalls == 3

RejectedRuns == {0, 1, kConnIdEncodingRetryLimit - 1, kConnIdEncodingRetryLimit}
ErrorAts == {0, 1, 2, kConnIdEncodingRetryLimit}

(* the algorithm and the rejector a call meets *)
withConnIdPlan(c, hasRejector, rejectedRun, errorAt) ==
    [c EXCEPT !.connIdAlgo.errorAt =
                  IF errorAt = 0 THEN 0 ELSE c.connIdAlgo.encoded + errorAt,
              !.connIdRejector =
                  [present |-> hasRejector,
                   rejectUpTo |-> c.connIdAlgo.encoded + rejectedRun]]

InitConnId ==
    /\ conn = InitConn
    /\ now = 0
    /\ hist = [op |-> "init", calls |-> 0, encodedBefore |-> 0, newConnIdData |-> NoConnIdData,
               loggedError |-> FALSE, serverConnId |-> None]

(* onServerReadData on the client's first datagram, which makes the server *)
(* issue its first connection ID (ServerStateMachine.cpp 694-701); the     *)
(* CHECK of line 700 ends the process when no ID came back.  hist keeps    *)
(* what createAndAddNewSelfConnId returned to the handler.                 *)
ReadFirstDatagram ==
    /\ conn.serverConnectionId = None
    /\ ok(conn)
    /\ \E hasRejector \in BOOLEAN, rejectedRun \in RejectedRuns, errorAt \in ErrorAts :
         LET c == withConnIdPlan(begin(conn), hasRejector, rejectedRun, errorAt)
             r == createAndAddNewSelfConnId(c)
             read == onServerReadData(c, FirstDatagram, now)
         IN /\ conn' = read
            /\ hist' = [op |-> "readFirstDatagram", calls |-> hist.calls + 1,
                        encodedBefore |-> conn.connIdAlgo.encoded,
                        newConnIdData |-> r.newConnIdData,
                        loggedError |-> r.loggedError,
                        serverConnId |-> read.serverConnectionId]
    /\ UNCHANGED now

CreateAndAddNewSelfConnId ==
    /\ conn.serverConnectionId # None
    /\ ok(conn)
    /\ hist.calls < MaxConnIdCalls
    /\ \E hasRejector \in BOOLEAN, rejectedRun \in RejectedRuns, errorAt \in ErrorAts :
         LET r == createAndAddNewSelfConnId(
                      withConnIdPlan(begin(conn), hasRejector, rejectedRun, errorAt))
         IN /\ conn' = r.conn
            /\ hist' = [op |-> "createAndAddNewSelfConnId",
                        calls |-> hist.calls + 1,
                        encodedBefore |-> conn.connIdAlgo.encoded,
                        newConnIdData |-> r.newConnIdData,
                        loggedError |-> r.loggedError,
                        serverConnId |-> hist.serverConnId]
    /\ UNCHANGED now

NextConnId == ReadFirstDatagram \/ CreateAndAddNewSelfConnId

SpecConnId == InitConnId /\ [][NextConnId]_vars

IsConnIdCall == hist'.op \in {"readFirstDatagram", "createAndAddNewSelfConnId"}

(* the rejector of the call just made rejected this candidate *)
RejectedByCall(c, connId) ==
    /\ c.connIdRejector.present
    /\ connId > hist'.encodedBefore
    /\ rejectConnectionId(c, connId)

(* C35: createAndAddNewSelfConnId asks the algorithm for at most           *)
(* kConnIdEncodingRetryLimit = 16 candidates; an ID the rejector rejected  *)
(* is never added to selfConnectionIds nor installed as the server         *)
(* connection ID; and every ID added carries a sequence number strictly    *)
(* greater than every sequence number issued before.                       *)
C35_RejectedConnIdNeverAdded ==
    [][ IsConnIdCall =>
          /\ conn'.connIdAlgo.encoded - conn.connIdAlgo.encoded
               <= kConnIdEncodingRetryLimit
          /\ hist'.newConnIdData # NoConnIdData
               => /\ ~RejectedByCall(conn', hist'.newConnIdData.connId)
                  /\ \A i \in 1..Len(conn.selfConnectionIds) :
                        conn.selfConnectionIds[i].sequenceNumber
                          < hist'.newConnIdData.sequenceNumber
          /\ hist'.newConnIdData = NoConnIdData
               => conn'.selfConnectionIds = conn.selfConnectionIds
          /\ hist'.op = "readFirstDatagram" /\ hist'.serverConnId # None
               => ~RejectedByCall(conn', hist'.serverConnId) ]_vars

---------------------------------------------------------------------------
(* the open set, cursor and limit of the quartet a stream id belongs to *)
QuartetOf(c, id) ==
    IF isLocalStream(c.nodeType, id) THEN localFields(id) ELSE peerFields(id)

(* C36: in every state of the stream manager, every id with a record in    *)
(* the stream map is in the open set of its quartet; every id in an open   *)
(* peer set is below the next-acceptable peer cursor of its direction; a   *)
(* peer id below that cursor which is not in the open set is closed (it    *)
(* was removed and has no record); the ids of one open set are congruent   *)
(* modulo 4; and no call makes a next-acceptable cursor decrease.          *)
C36_OpenSetsAndCursors ==
    [][ /\ \A id \in DOMAIN conn'.streams :
             id \in conn'[QuartetOf(conn', id).open]
        /\ \A id \in conn'.openBidirectionalPeerStreams :
             id < conn'.nextAcceptablePeerBidirectionalStreamId
        /\ \A id \in conn'.openUnidirectionalPeerStreams :
             id < conn'.nextAcceptablePeerUnidirectionalStreamId
        /\ \A id \in StreamIds :
             /\ isRemoteStream(conn'.nodeType, id)
             /\ id < conn'[peerFields(id).next]
             /\ id \notin conn'[peerFields(id).open]
             => id \in hist'.closed /\ id \notin DOMAIN conn'.streams
        /\ \A i \in 1..4 : \A id \in OpenStreamSets(conn')[i] :
             \A other \in OpenStreamSets(conn')[i] : id % 4 = other % 4
        /\ \A i \in 1..4 :
             NextAcceptableCursors(conn')[i] >= NextAcceptableCursors(conn)[i]
      ]_vars

(* a client with both of its bidirectional streams and the peer's          *)
(* unidirectional stream open; the peer's stream 1 was opened, removed and *)
(* asked for again: it is below the cursor, in no open set, and getStream  *)
(* returned null                                                           *)
C36_Witness ==
    /\ hist.op = "getStream"
    /\ hist.id = 1
    /\ conn.nodeType = "Client"
    /\ 1 \in hist.closed
    /\ ok(conn)
    /\ conn.ret.stream = None
    /\ conn.nextAcceptablePeerBidirectionalStreamId = 5
    /\ conn.openBidirectionalPeerStreams = {}
    /\ conn.openBidirectionalLocalStreams = {0, 4}
    /\ conn.openUnidirectionalPeerStreams = {3}

---------------------------------------------------------------------------
(* the exceptions raised where the priority map and the stream map differ *)
PriorityMapErrors ==
    { "Active stream not in stream priority map",
      "Removed stream is not in the priority map",
      "Attempted to add stream already in priority map" }

(* C37: in every state reached through createStream, createNext*Stream,    *)
(* getStream, setStreamPriority and removeClosedStream, the                *)
(* stream-priority map has the keys of the stream map and each entry holds *)
(* the priority level of its stream, and no call raises one of the         *)
(* STREAM_STATE_ERROR exceptions of setStreamPriority, removeClosedStream  *)
(* and addToStreamPriorityMap about the priority map.                      *)
C37_PriorityMapMirrorsStreamMap ==
    [][ /\ DOMAIN conn'.streamPriorityLevels = DOMAIN conn'.streams
        /\ \A id \in DOMAIN conn'.streams :
             conn'.streamPriorityLevels[id] = conn'.streams[id].priority.level
        /\ conn'.errMessage \notin PriorityMapErrors
      ]_vars

(* on a server the peer's stream 4 was looked up, which opened stream 0    *)
(* without a record, and removed; the lookup of stream 0 then made its     *)
(* record and its map entry, while a stream of the node's own has a        *)
(* changed priority level                                                  *)
C37_Witness ==
    /\ hist.op = "getStream"
    /\ hist.id = 0
    /\ ok(conn)
    /\ conn.nodeType = "Server"
    /\ conn.onStreamPrioritiesChangeCalls = 1
    /\ conn.nextAcceptablePeerBidirectionalStreamId = 8
    /\ conn.openBidirectionalPeerStreams = {0}
    /\ 0 \in DOMAIN conn.streamPriorityLevels
    /\ \E id \in DOMAIN conn.streams :
          /\ isLocalStream(conn.nodeType, id)
          /\ conn.streams[id].priority.level # kDefaultPriority.level
          /\ conn.streamPriorityLevels[id] = conn.streams[id].priority.level

---------------------------------------------------------------------------
(* the stream credit of a direction that no limit update has returned:     *)
(* the advertised initial maximum less the streams the peer may still open *)
(* and the streams it has open                                             *)
UnreturnedStreamCredit(c, uni) ==
    IF uni
    THEN c.transportSettings.advertisedInitialMaxStreamsUni
             - openableRemoteUnidirectionalStreams(c)
             - Cardinality(c.openUnidirectionalPeerStreams)
    ELSE c.transportSettings.advertisedInitialMaxStreamsBidi
             - openableRemoteBidirectionalStreams(c)
             - Cardinality(c.openBidirectionalPeerStreams)

(* C38: the unsigned stream-credit subtraction never wraps: in every state *)
(* reached from refreshTransportSettings through getStream and             *)
(* removeClosedStream on peer streams (hist.windowed), the limit is not    *)
(* below the next acceptable id and openable remote streams plus open      *)
(* peer streams is at most the advertised initial maximum in each          *)
(* direction; and after each removal the credit not yet returned is        *)
(* strictly below the window (advertised initial maximum divided by the    *)
(* windowing fraction) whenever that window is positive.                   *)
C38_StreamCreditNeverWraps ==
    hist.windowed =>
        /\ conn.maxRemoteBidirectionalStreamId
              >= conn.nextAcceptablePeerBidirectionalStreamId
        /\ conn.maxRemoteUnidirectionalStreamId
              >= conn.nextAcceptablePeerUnidirectionalStreamId
        /\ \A uni \in BOOLEAN : UnreturnedStreamCredit(conn, uni) >= 0
        /\ hist.op = "removeClosedStream" /\ StreamWindow(conn, hist.uni) > 0
             => UnreturnedStreamCredit(conn, hist.uni)
                    < StreamWindow(conn, hist.uni)

(* a removal left a credit of one below the window of two, with the peer   *)
(* holding a stream open and the limit raised before                       *)
C38_Witness ==
    /\ hist.op = "removeClosedStream"
    /\ hist.windowed
    /\ ~hist.uni
    /\ ok(conn)
    /\ StreamWindow(conn, FALSE) = 2
    /\ UnreturnedStreamCredit(conn, FALSE) = 1
    /\ Cardinality(conn.openBidirectionalPeerStreams) >= 1
    /\ RemoteLimit(conn, FALSE).maxStreams
         > conn.transportSettings.advertisedInitialMaxStreamsBidi

---------------------------------------------------------------------------
(* what updateAckSendStateOnRecvPacket writes for a space *)
AckSendState(c, s) ==
    [ needsToSendAckImmediately |-> c.ackStates[s].needsToSendAckImmediately,
      numRxPacketsRecvd |-> c.ackStates[s].numRxPacketsRecvd,
      numNonRxPacketsRecvd |-> c.ackStates[s].numNonRxPacketsRecvd,
      scheduleAckTimeout |-> c.pendingEvents.scheduleAckTimeout ]

(* C39: a packet of the AppData level that comes from an address other     *)
(* than peerAddress and is classified probing never migrates the           *)
(* connection: the read raises INVALID_MIGRATION, peerAddress,             *)
(* numMigrations, previousPeerAddresses and lastCongestionAndRtt stay as   *)
(* they were, and the ACK-send state (latch, counters, ack timeout) is not *)
(* updated for the packet.                                                 *)
C39_ProbingPacketNeverMigrates ==
    [][ /\ IsRegularRead
        /\ hist'.first.frames # <<>>
        /\ IsAppData(hist'.first.protectionType)
        /\ hist'.peer # conn.peerAddress
        /\ ~isNonProbingPacket(hist'.first)
        => /\ conn'.err = "INVALID_MIGRATION"
           /\ conn'.peerAddress = conn.peerAddress
           /\ conn'.migrationState = conn.migrationState
           /\ AckSendState(conn', "AppData") = AckSendState(conn, "AppData")
      ]_vars

(* a PATH_CHALLENGE packet, the newest of its space, came from another     *)
(* address with migration enabled: refused, no ACK scheduled for it        *)
C39_Witness ==
    /\ hist.op = "onServerReadData"
    /\ hist.first.type = "REGULAR_PACKET"
    /\ hist.first.frames = <<"PATH_CHALLENGE">>
    /\ IsAppData(hist.first.protectionType)
    /\ hist.peer # conn.peerAddress
    /\ conn.err = "INVALID_MIGRATION"
    /\ ~conn.transportSettings.disableMigration
    /\ conn.ackStates["AppData"].largestReceivedPacketNum = hist.first.packetNum
    /\ conn.ackStates["AppData"].numRxPacketsRecvd = 0
    /\ ~conn.pendingEvents.scheduleAckTimeout

---------------------------------------------------------------------------
(* C40: in every state reached through successful onConnectionMigration    *)
(* calls, previousPeerAddresses holds no address twice and does not hold   *)
(* the current peerAddress; a call appends the address it leaves exactly   *)
(* when the path being left had no PATH_CHALLENGE queued and no path       *)
(* validation outstanding; and a call that migrates to an address of the   *)
(* list removes it from the list.                                          *)
C40_PreviousPeerAddressesDistinct ==
    [][ LET before == conn.migrationState.previousPeerAddresses
            after == conn'.migrationState.previousPeerAddresses
            kept == IF Contains(before, hist'.newPeerAddress)
                    THEN EraseFirst(before, hist'.newPeerAddress)
                    ELSE before
        IN /\ ok(conn') =>
                /\ \A i, j \in DOMAIN after : after[i] = after[j] => i = j
                /\ ~Contains(after, conn'.peerAddress)
           /\ hist'.op = "onConnectionMigration" /\ ok(conn') =>
                /\ after = IF pathIsValidated(conn)
                           THEN Append(kept, conn.peerAddress)
                           ELSE kept
                /\ ~Contains(after, hist'.newPeerAddress) ]_vars

(* the peer came back to an address of the list from a validated path: the *)
(* address left the list, the address left entered it behind another       *)
C40_Witness ==
    /\ hist.op = "onConnectionMigration"
    /\ ok(conn)
    /\ conn.peerAddress = A1
    /\ Len(conn.migrationState.previousPeerAddresses) = 2
    /\ conn.pendingEvents.pathChallenge = None
    /\ conn.migrationState.numMigrations = 3
====
